---- MODULE Spec2Model ----
(***************************************************************************)
(* A model of the matching and scoring engine of the AI resume scanner:    *)
(* utils/text_processing.py, models/job_matcher.py and                     *)
(* models/scoring_engine.py.                                               *)
(*                                                                         *)
(* A text is a sequence of tokens (strings).  Scores are exact rationals   *)
(* <<numerator, denominator>>; where the code rounds to two decimals the   *)
(* model keeps an integer number of hundredths.                            *)
(***************************************************************************)
EXTENDS Integers, Sequences, FiniteSets, TLC

VARIABLES pc, op, args, ret, aux

vars == <<pc, op, args, ret, aux>>

-----------------------------------------------------------------------------
(* Bounds of the model.                                                    *)

\* Number of phrases a generated resume or job text is made of.
MaxPhrases == 2
\* Largest number of years written in a text.
MaxYears == 10
\* Largest number of documents in one batch.
MaxBatch == 3
\* Largest number of lines of a resume text.
MaxLines == 3
\* The number of files a batch is cut to.
MaxFiles == 10
\* Largest number of words of a job description that is categorized.
MaxRoleWords == 3
\* Largest number of requirement phrases in a job description.
MaxRequirements == 2
\* Largest numbers of technical, soft and other skills in a list of skills.
MaxTech == 6
MaxSoft == 2
MaxOther == 20
\* Largest number of lines of a resume given to the parser.
MaxParseLines == 2
\* The longest skill list extract_skills is given.
MaxSkillList == 3
\* The longest text (in tokens) whose content quality is scored on its own.
MaxTokens == 5
\* The most entities the recognizer finds in a text.
MaxEntities == 3

-----------------------------------------------------------------------------
(* Exact rational arithmetic for the float scores.                         *)

RECURSIVE GCD(_, _)
GCD(a, b) == IF b = 0 THEN a ELSE GCD(b, a % b)

Abs(x) == IF x < 0 THEN -x ELSE x

\* The rational n/d (d > 0) in lowest terms.
Rat(n, d) ==
    LET g == GCD(Abs(n), d) IN
    IF n = 0 THEN <<0, 1>> ELSE <<n \div g, d \div g>>

RZero == <<0, 1>>
ROne == <<1, 1>>
RAdd(x, y) == Rat(x[1] * y[2] + y[1] * x[2], x[2] * y[2])
RMul(x, y) == Rat(x[1] * y[1], x[2] * y[2])
RLe(x, y) == x[1] * y[2] <= y[1] * x[2]
RLt(x, y) == x[1] * y[2] < y[1] * x[2]
RInt(n) == <<n, 1>>

RECURSIVE RSum(_)
RSum(s) == IF s = <<>> THEN RZero ELSE RAdd(s[1], RSum(Tail(s)))

\* Python's round(x * 100, 2) of a rational x >= 0, as a number of hundredths:
\* the nearest hundredth of 100 * x, an exact tie going to the even one.
\* (The digits are taken two at a time to keep the products small.)
Round2Pct(x) ==
    LET d == x[2]
        whole == x[1] \div d
        r0 == x[1] % d
        a == (r0 * 100) \div d
        r1 == (r0 * 100) % d
        b == (r1 * 100) \div d
        r2 == (r1 * 100) % d
        q == whole * 10000 + a * 100 + b
    IN  IF 2 * r2 < d THEN q
        ELSE IF 2 * r2 > d THEN q + 1
        ELSE IF q % 2 = 0 THEN q ELSE q + 1

-----------------------------------------------------------------------------
(* Tokens.                                                                 *)

\* Tokens that str.lower() changes.
LowerTable ==
    ("Python" :> "python") @@ ("SQL" :> "sql") @@ ("MySQL" :> "mysql") @@
    ("Excel" :> "excel") @@ ("Summary" :> "summary") @@
    ("PROJECTS" :> "projects") @@ ("Objective" :> "objective") @@
    ("Acme" :> "acme") @@ ("Corp" :> "corp") @@ ("BSc" :> "bsc") @@
    ("Data" :> "data") @@ ("Developers" :> "developers") @@
    ("Product" :> "product")

lower(tok) == IF tok \in DOMAIN LowerTable THEN LowerTable[tok] ELSE tok

LowerText(text) == [i \in 1..Len(text) |-> lower(text[i])]

\* Tokens made of digits: str(n) for the numbers of the model.
Numerals == {ToString(n) : n \in 0..MaxYears}

\* int(tok) of a numeral.
IntOf(tok) == CHOOSE n \in 0..MaxYears : ToString(n) = tok

\* Tokens with no letter in them: clean_text turns them into white space.
NonLetterTokens == Numerals \cup {"+", "-", "."}

\* nltk's English stop words that occur in the model's texts.
NltkStopWords == {"the", "of", "to"}

\* scikit-learn's English stop words that occur in the model's texts
\* ("system" is one of them and no nltk stop word).
SklearnStopWords == {"the", "of", "to", "system"}

\* WordNetLemmatizer.lemmatize on the model's words.
LemmaTable == ("years" :> "year") @@ ("skills" :> "skill")

Lemma(tok) == IF tok \in DOMAIN LemmaTable THEN LemmaTable[tok] ELSE tok

\* <<a, b>>: a is a proper prefix of b (for Python's substring test `in').
ProperPrefix == {<<"year", "years">>, <<"skill", "skills">>}

\* The function f as a table of its values, so that TLC computes each value
\* once and not at every application.
Table(f) == f @@ <<>>

At(s, i) == IF i \in 1..Len(s) THEN s[i] ELSE ""

\* dict.get(key, default)
Get(d, key, default) == IF key \in DOMAIN d THEN d[key] ELSE default

\* words occurs in text as consecutive tokens starting at position i.
MatchesAt(words, text, i) ==
    \A k \in 1..Len(words) : At(text, i + k - 1) = words[k]

ContainsPhrase(text, words) ==
    IF Len(words) = 1 THEN \E i \in 1..Len(text) : text[i] = words[1]
    ELSE \E i \in 1..Len(text) : MatchesAt(words, text, i)

RECURSIVE RemoveDuplicates(_)
RemoveDuplicates(s) ==
    IF s = <<>> THEN <<>>
    ELSE LET rest == RemoveDuplicates(SubSeq(s, 1, Len(s) - 1))
             last == s[Len(s)]
         IN  IF \E i \in 1..Len(rest) : rest[i] = last THEN rest
             ELSE Append(rest, last)

Range(s) == {s[i] : i \in 1..Len(s)}

RECURSIVE SetMax(_)
SetMax(S) ==
    LET x == CHOOSE y \in S : TRUE IN
    IF S = {x} THEN x
    ELSE LET m == SetMax(S \ {x}) IN IF x > m THEN x ELSE m

RECURSIVE SetMin(_)
SetMin(S) ==
    LET x == CHOOSE y \in S : TRUE IN
    IF S = {x} THEN x
    ELSE LET m == SetMin(S \ {x}) IN IF x < m THEN x ELSE m

-----------------------------------------------------------------------------
(* config.py                                                               *)

TECHNICAL_SKILLS ==
    << "python", "java", "javascript", "c++", "sql", "html", "css", "react",
       "node.js", "django", "flask", "spring", "mongodb", "postgresql",
       "machine learning", "data science", "tensorflow", "pytorch",
       "scikit-learn", "pandas", "numpy", "matplotlib", "seaborn", "tableau",
       "power bi", "aws", "azure", "docker", "kubernetes", "git", "jenkins" >>

SOFT_SKILLS ==
    << "leadership", "communication", "teamwork", "problem solving",
       "critical thinking", "time management", "adaptability", "creativity",
       "project management", "analytical thinking", "collaboration" >>

\* The tokens of the skills written as several words.
MultiWordSkills ==
    ("machine learning" :> <<"machine", "learning">>) @@
    ("data science" :> <<"data", "science">>) @@
    ("power bi" :> <<"power", "bi">>) @@
    ("problem solving" :> <<"problem", "solving">>) @@
    ("critical thinking" :> <<"critical", "thinking">>) @@
    ("time management" :> <<"time", "management">>) @@
    ("project management" :> <<"project", "management">>) @@
    ("analytical thinking" :> <<"analytical", "thinking">>)

SkillWords(skill) ==
    IF skill \in DOMAIN MultiWordSkills THEN MultiWordSkills[skill]
    ELSE <<skill>>

\* Skills ending in a non-word character: the closing \b of the pattern then
\* needs a word character right after the skill, which no token boundary has.
NoClosingBoundary == {"c++"}

-----------------------------------------------------------------------------
(* utils/text_processing.py: TextProcessor                                 *)

\* Lowercase, turn everything but letters into white space, collapse it.
clean_text(text) ==
    SelectSeq(LowerText(text), LAMBDA tok : tok \notin NonLetterTokens)

remove_stopwords(text) ==
    SelectSeq(text, LAMBDA word : lower(word) \notin NltkStopWords)

lemmatize_text(text) == [i \in 1..Len(text) |-> Lemma(text[i])]

preprocess_for_similarity(text) ==
    LET cleaned == clean_text(text)
        no_stopwords == remove_stopwords(cleaned)
        lemmatized == lemmatize_text(no_stopwords)
    IN  lemmatized

\* re.search(r'\b' + re.escape(skill_lower) + r'\b', text_lower)
SkillFound(skill, text_lower) ==
    /\ lower(skill) \notin NoClosingBoundary
    /\ ContainsPhrase(text_lower, SkillWords(lower(skill)))

\* A plausible slip: the found skills returned without list(set(...)).
extract_skills_with_duplicates(text, skill_list) ==
    SelectSeq(skill_list, LAMBDA skill : SkillFound(skill, LowerText(text)))

\* list(set(found_skills)): the found skills of skill_list as written there,
\* each once (Python leaves the order of the result open; the model keeps
\* the order of skill_list).
extract_skills(text, skill_list) ==
    LET text_lower == LowerText(text)
        found_skills ==
            SelectSeq(skill_list, LAMBDA skill : SkillFound(skill, text_lower))
    IN  RemoveDuplicates(found_skills)

\* skill_list=None
DefaultSkillList == TECHNICAL_SKILLS \o SOFT_SKILLS

YearWords == {"year", "years", "yr", "yrs"}
ExpWords == {"experience", "exp"}

IsNum(tok) == tok \in Numerals

\* r'(\d+)\s*(?:years?|yrs?)\s*(?:of\s*)?(?:experience|exp)' at token i
ResumePattern1(t, i) ==
    /\ IsNum(At(t, i)) /\ At(t, i + 1) \in YearWords
    /\ \/ At(t, i + 2) \in ExpWords
       \/ At(t, i + 2) = "of" /\ At(t, i + 3) \in ExpWords

\* r'(\d+)\+?\s*(?:years?|yrs?)' at token i
ResumePattern2(t, i) ==
    /\ IsNum(At(t, i))
    /\ \/ At(t, i + 1) \in YearWords
       \/ At(t, i + 1) = "+" /\ At(t, i + 2) \in YearWords

\* r'experience\s*(?:of\s*)?(\d+)\s*(?:years?|yrs?)', the number at token i
ResumePattern3(t, i) ==
    /\ IsNum(At(t, i)) /\ At(t, i + 1) \in YearWords
    /\ \/ At(t, i - 1) = "experience"
       \/ At(t, i - 1) = "of" /\ At(t, i - 2) = "experience"

extract_experience_years(text) ==
    LET text_lower == LowerText(text)
        years == {IntOf(text_lower[i]) : i \in
                    {j \in 1..Len(text_lower) :
                        \/ ResumePattern1(text_lower, j)
                        \/ ResumePattern2(text_lower, j)
                        \/ ResumePattern3(text_lower, j)}}
    IN  IF years # {} THEN SetMax(years) ELSE 0

-----------------------------------------------------------------------------
(* scikit-learn's TfidfVectorizer(stop_words='english', ngram_range=(1,2)) *)
(* as job_matcher.py uses it.  A term is a sequence of one or two tokens.  *)

\* The analyzer: the tokens left after the stop words are dropped.
SklearnTokens(text) ==
    SelectSeq(LowerText(text), LAMBDA tok : tok \notin SklearnStopWords)

Terms(text) ==
    LET t == SklearnTokens(text) IN
    {<<t[i]>> : i \in 1..Len(t)} \cup
    {<<t[i], t[i + 1]>> : i \in 1..(Len(t) - 1)}

\* The words of preprocessed texts in alphabetical order, which is the order
\* of the vectorizer's features.
WordOrder ==
    << "experience", "leadership", "minimum", "python", "skill", "sql",
       "system", "team", "year" >>

WordRankTable ==
    [w \in {WordOrder[i] : i \in 1..Len(WordOrder)} |->
        CHOOSE i \in 1..Len(WordOrder) : WordOrder[i] = w]

WordRank(w) == IF w \in DOMAIN WordRankTable THEN WordRankTable[w] ELSE 0

\* x comes before y among the feature names (the strings joined by a space).
TermBefore(x, y) ==
    \/ WordRank(x[1]) < WordRank(y[1])
    \/ /\ x[1] = y[1]
       /\ \/ Len(x) < Len(y)
          \/ Len(x) = 2 /\ Len(y) = 2 /\ WordRank(x[2]) < WordRank(y[2])

\* keyword_scores.sort(key=score, reverse=True): by falling score, features
\* of equal score staying in feature order.  With one fitted document every
\* idf is the same, so the score of a term rises with its count (count[x]).
\* Each term goes to the place after the terms that come before it.
SortByScore(terms, count) ==
    LET Before(y, x) ==
            \/ count[y] > count[x]
            \/ count[y] = count[x] /\ TermBefore(y, x)
        place == Table([x \in terms |-> 1 + Cardinality({y \in terms : Before(y, x)})])
    IN  [i \in 1..Cardinality(terms) |-> CHOOSE x \in terms : place[x] = i]

\* The term counts of a text as a function of its terms.
TermCounts(text) ==
    LET t == SklearnTokens(text) IN
    Table([x \in Terms(text) |-> Cardinality({i \in 1..Len(t) : MatchesAt(x, t, i)})])

FirstN(s, n) == SubSeq(s, 1, IF Len(s) < n THEN Len(s) ELSE n)

\* keyword in text_lower, Python's substring test on the lowercased text.
PrefixOf(w, tok) == w = tok \/ <<w, tok>> \in ProperPrefix

KeywordIn(keyword, text_lower) ==
    IF Len(keyword) = 1
    THEN \E i \in 1..Len(text_lower) : PrefixOf(keyword[1], text_lower[i])
    ELSE \E i \in 1..(Len(text_lower) - 1) :
            text_lower[i] = keyword[1] /\ PrefixOf(keyword[2], text_lower[i + 1])

-----------------------------------------------------------------------------
(* models/job_matcher.py: JobMatcher                                       *)

\* The cosine of the tf-idf vectors of two different, overlapping term bags
\* is a number strictly between 0 and 1 that the model does not compute: it
\* is an input of the call.
CosineValues == {<<1, 3>>, <<7, 8>>}

\* The two term-count vectors are multiples of each other.
Proportional(text1, text2) ==
    LET c1 == TermCounts(text1)
        c2 == TermCounts(text2)
    IN  /\ DOMAIN c1 = DOMAIN c2
        /\ \A x, y \in DOMAIN c1 : c1[x] * c2[y] = c1[y] * c2[x]

tfidf_cosine_similarity(text1, text2, cos) ==
    IF Terms(text1) \cup Terms(text2) = {}
    THEN RZero      \* fit_transform raises on an empty vocabulary
    ELSE IF Terms(text1) \cap Terms(text2) = {} THEN RZero
    ELSE IF Proportional(text1, text2) THEN ROne
    ELSE cos

extract_important_keywords(text, num_keywords) ==
    LET processed_text == preprocess_for_similarity(text) IN
    IF processed_text = <<>> THEN <<>>
    ELSE IF Terms(processed_text) = {}
    THEN <<>>       \* fit_transform raises on an empty vocabulary
    ELSE FirstN(SortByScore(Terms(processed_text), TermCounts(processed_text)),
                num_keywords)

keyword_matching_score(resume_text, job_description) ==
    LET job_keywords == extract_important_keywords(job_description, 20)
        resume_lower == LowerText(resume_text)
        matched_keywords ==
            Cardinality({i \in 1..Len(job_keywords) :
                            KeywordIn(job_keywords[i], resume_lower)})
    IN  IF job_keywords = <<>> THEN RZero
        ELSE Rat(matched_keywords, Len(job_keywords))

LowerSet(skills) == {lower(skills[i]) : i \in 1..Len(skills)}

\* A plausible slip: the two weights of the skills blend exchanged.
WeightedSkillsAverageExchanged(jaccard_score, job_skills_found) ==
    RAdd(RMul(jaccard_score, <<3, 5>>), RMul(job_skills_found, <<2, 5>>))

\* jaccard_score * 0.4 + job_skills_found * 0.6
WeightedSkillsAverage(jaccard_score, job_skills_found) ==
    RAdd(RMul(jaccard_score, <<2, 5>>), RMul(job_skills_found, <<3, 5>>))

skills_matching_score(resume_text, job_description) ==
    LET resume_skills == LowerSet(extract_skills(resume_text, DefaultSkillList))
        job_skills == LowerSet(extract_skills(job_description, DefaultSkillList))
        intersection == Cardinality(resume_skills \cap job_skills)
        union == Cardinality(resume_skills \cup job_skills)
        jaccard_score == IF union > 0 THEN Rat(intersection, union) ELSE RZero
        job_skills_found == Rat(intersection, Cardinality(job_skills))
    IN  IF job_skills = {} THEN RZero
        ELSE WeightedSkillsAverage(jaccard_score, job_skills_found)

\* r'(\d+)\+?\s*(?:years?|yrs?)\s*(?:of\s*)?(?:experience|exp)' at token i
JobPattern1(t, i) ==
    /\ IsNum(At(t, i))
    /\ LET y == IF At(t, i + 1) = "+" THEN i + 2 ELSE i + 1 IN
       /\ At(t, y) \in YearWords
       /\ \/ At(t, y + 1) \in ExpWords
          \/ At(t, y + 1) = "of" /\ At(t, y + 2) \in ExpWords

\* r'(?:minimum|min|at least)\s*(\d+)\s*(?:years?|yrs?)', the number at i
JobPattern2(t, i) ==
    /\ IsNum(At(t, i)) /\ At(t, i + 1) \in YearWords
    /\ \/ At(t, i - 1) \in {"minimum", "min"}
       \/ At(t, i - 1) = "least" /\ At(t, i - 2) = "at"

\* r'(\d+)\s*to\s*(\d+)\s*(?:years?|yrs?)', the first number at i
JobPattern3(t, i) ==
    /\ IsNum(At(t, i)) /\ At(t, i + 1) = "to"
    /\ IsNum(At(t, i + 2)) /\ At(t, i + 3) \in YearWords

\* r'(\d+)\s*-\s*(\d+)\s*(?:years?|yrs?)', the first number at i
JobPattern4(t, i) ==
    /\ IsNum(At(t, i)) /\ At(t, i + 1) = "-"
    /\ IsNum(At(t, i + 2)) /\ At(t, i + 3) \in YearWords

\* The numbers the four patterns collect, pattern after pattern: for each
\* match the first group (of the two range patterns too).
RequiredYearsCollected(job_description) ==
    LET text_lower == LowerText(job_description)
        Matches(Pattern(_, _)) ==
            SelectSeq([j \in 1..Len(text_lower) |-> j],
                      LAMBDA j : Pattern(text_lower, j))
        positions == Matches(JobPattern1) \o Matches(JobPattern2)
                     \o Matches(JobPattern3) \o Matches(JobPattern4)
    IN  [k \in 1..Len(positions) |-> IntOf(text_lower[positions[k]])]

\* A plausible slip: the largest of the collected numbers returned.
extract_required_experience_max(job_description) ==
    LET text_lower == LowerText(job_description)
        years == {IntOf(text_lower[i]) : i \in
                    {j \in 1..Len(text_lower) :
                        \/ JobPattern1(text_lower, j)
                        \/ JobPattern2(text_lower, j)
                        \/ JobPattern3(text_lower, j)
                        \/ JobPattern4(text_lower, j)}}
    IN  IF years # {} THEN SetMax(years) ELSE 0

extract_required_experience(job_description) ==
    LET text_lower == LowerText(job_description)
        years == {IntOf(text_lower[i]) : i \in
                    {j \in 1..Len(text_lower) :
                        \/ JobPattern1(text_lower, j)
                        \/ JobPattern2(text_lower, j)
                        \/ JobPattern3(text_lower, j)
                        \/ JobPattern4(text_lower, j)}}
    IN  IF years # {} THEN SetMin(years) ELSE 0

\* A plausible slip: > for >= in the tests of the tiers.
ExperienceTiersStrict(resume_exp, job_exp) ==
    IF job_exp = 0 THEN ROne
    ELSE IF resume_exp > job_exp THEN ROne
    ELSE IF RLt(RMul(RInt(job_exp), <<7, 10>>), RInt(resume_exp))
    THEN <<4, 5>>
    ELSE IF RLt(RMul(RInt(job_exp), <<1, 2>>), RInt(resume_exp))
    THEN <<3, 5>>
    ELSE Rat(resume_exp, job_exp)

\* The tiers of experience_matching_score.
ExperienceTiers(resume_exp, job_exp) ==
    IF job_exp = 0 THEN ROne
    ELSE IF resume_exp >= job_exp THEN ROne
    ELSE IF RLe(RMul(RInt(job_exp), <<7, 10>>), RInt(resume_exp))
    THEN <<4, 5>>
    ELSE IF RLe(RMul(RInt(job_exp), <<1, 2>>), RInt(resume_exp))
    THEN <<3, 5>>
    ELSE Rat(resume_exp, job_exp)

experience_matching_score(resume_text, job_description) ==
    LET resume_exp == extract_experience_years(resume_text)
        job_exp == extract_required_experience(job_description)
    IN  ExperienceTiers(resume_exp, job_exp)

\* A plausible slip: the weights of tfidf_cosine and skills_match exchanged.
SimilarityWeightsExchanged ==
    [tfidf_cosine |-> <<3, 10>>, keyword_match |-> <<1, 5>>,
     skills_match |-> <<2, 5>>, experience_match |-> <<1, 10>>]

\* A plausible slip: `and' for `or' in the test of the preprocessed texts.
ShortCircuitWhenBothEmpty(resume_processed, job_processed) ==
    resume_processed = <<>> /\ job_processed = <<>>

\* not resume_processed or not job_processed
ShortCircuit(resume_processed, job_processed) ==
    resume_processed = <<>> \/ job_processed = <<>>

MethodOrder ==
    <<"tfidf_cosine", "keyword_match", "skills_match", "experience_match">>

SimilarityWeights ==
    [tfidf_cosine |-> <<2, 5>>, keyword_match |-> <<1, 5>>,
     skills_match |-> <<3, 10>>, experience_match |-> <<1, 10>>]

\* The weighted sum and the returned dict of calculate_similarity_score, with
\* the local dict `scores' (the method scores before rounding) and the scoring
\* methods that were called.
WeightedResult(scores) ==
    LET weights == SimilarityWeights
        overall_score ==
            RSum([i \in 1..Len(MethodOrder) |->
                    RMul(scores[MethodOrder[i]], weights[MethodOrder[i]])])
    IN  [result |->
            [overall_score |-> Round2Pct(overall_score),
             method_scores |-> [k \in DOMAIN scores |-> Round2Pct(scores[k])]],
         scores |-> scores,
         calls |->
            <<"tfidf_cosine_similarity", "keyword_matching_score",
              "skills_matching_score", "experience_matching_score">>]

\* calculate_similarity_score from the preprocessed texts on.
ScoreMethods(resume_text, job_description, resume_processed, job_processed, cos) ==
    IF ShortCircuit(resume_processed, job_processed)
    THEN [result |-> [overall_score |-> 0, method_scores |-> <<>>],
          scores |-> <<>>,
          calls |-> <<>>]
    ELSE WeightedResult(
            [tfidf_cosine |->
                tfidf_cosine_similarity(resume_processed, job_processed, cos),
             keyword_match |->
                keyword_matching_score(resume_text, job_description),
             skills_match |->
                skills_matching_score(resume_text, job_description),
             experience_match |->
                experience_matching_score(resume_text, job_description)])

\* calculate_similarity_score with what it did on the way:
\* [result |-> the returned dict, scores |-> its local dict `scores',
\* calls |-> the scoring methods it called].
calculate_similarity_score_run(resume_text, job_description, cos) ==
    ScoreMethods(resume_text, job_description,
                 preprocess_for_similarity(resume_text),
                 preprocess_for_similarity(job_description), cos)

calculate_similarity_score(resume_text, job_description, cos) ==
    calculate_similarity_score_run(resume_text, job_description, cos).result

\* A plausible slip: web_development listed before software_development.
JOB_CATEGORIES_web_first ==
    << [category |-> "data_science",
        keywords |-> << <<"data", "scientist">>,
                        <<"machine", "learning", "engineer">>,
                        <<"data", "analyst">> >>],
       [category |-> "web_development",
        keywords |-> << <<"web", "developer">>, <<"frontend", "developer">>,
                        <<"backend", "developer">> >>],
       [category |-> "software_development",
        keywords |-> << <<"software", "engineer">>, <<"developer">>,
                        <<"programmer">> >>],
       [category |-> "product_management",
        keywords |-> << <<"product", "manager">>, <<"product", "owner">>,
                        <<"business", "analyst">> >>],
       [category |-> "marketing",
        keywords |-> << <<"marketing", "manager">>, <<"digital", "marketing">>,
                        <<"content", "marketing">> >>] >>

\* config.JOB_CATEGORIES in the order of the dict; a keyword is written as
\* the sequence of its words.
JOB_CATEGORIES ==
    << [category |-> "data_science",
        keywords |-> << <<"data", "scientist">>,
                        <<"machine", "learning", "engineer">>,
                        <<"data", "analyst">> >>],
       [category |-> "software_development",
        keywords |-> << <<"software", "engineer">>, <<"developer">>,
                        <<"programmer">> >>],
       [category |-> "web_development",
        keywords |-> << <<"web", "developer">>, <<"frontend", "developer">>,
                        <<"backend", "developer">> >>],
       [category |-> "product_management",
        keywords |-> << <<"product", "manager">>, <<"product", "owner">>,
                        <<"business", "analyst">> >>],
       [category |-> "marketing",
        keywords |-> << <<"marketing", "manager">>, <<"digital", "marketing">>,
                        <<"content", "marketing">> >>] >>

\* <<w, tok>>: the word w is a proper prefix (suffix) of the token tok, for
\* the tokens of the model's job descriptions.
RolePrefix == {<<"developer", "developers">>, <<"scientist", "scientists">>}
RoleSuffix == {<<"data", "metadata">>}

StartsWith(tok, w) == tok = w \/ <<w, tok>> \in RolePrefix
EndsWith(tok, w) == tok = w \/ <<w, tok>> \in RoleSuffix

\* keyword.lower() in job_desc_lower: the keyword is a substring of the
\* text, its first word ending a token, its last word starting one and the
\* words between being tokens of their own.
RoleKeywordIn(keyword, text_lower) ==
    \E i \in 1..Len(text_lower) :
        IF Len(keyword) = 1
        THEN StartsWith(text_lower[i], keyword[1])
             \/ EndsWith(text_lower[i], keyword[1])
        ELSE /\ EndsWith(text_lower[i], keyword[1])
             /\ \A k \in 2..(Len(keyword) - 1) :
                    At(text_lower, i + k - 1) = keyword[k]
             /\ StartsWith(At(text_lower, i + Len(keyword) - 1),
                           keyword[Len(keyword)])

\* One of the keywords of category i occurs in the text.
CategoryMatches(i, text_lower) ==
    \E k \in 1..Len(JOB_CATEGORIES[i].keywords) :
        RoleKeywordIn(JOB_CATEGORIES[i].keywords[k], text_lower)

\* The loop over the categories from category i on.
RECURSIVE CategorizeFrom(_, _)
CategorizeFrom(text_lower, i) ==
    IF i > Len(JOB_CATEGORIES) THEN "general"
    ELSE IF CategoryMatches(i, text_lower) THEN JOB_CATEGORIES[i].category
    ELSE CategorizeFrom(text_lower, i + 1)

\* A plausible slip: the last matching category returned.
categorize_job_role_last(job_description) ==
    LET matching == {i \in 1..Len(JOB_CATEGORIES) :
                        CategoryMatches(i, LowerText(job_description))}
    IN  IF matching = {} THEN "general"
        ELSE JOB_CATEGORIES[SetMax(matching)].category

categorize_job_role(job_description) ==
    CategorizeFrom(LowerText(job_description), 1)

\* A plausible slip: the resume's skills reported as the additional ones.
analyze_skill_gaps_no_difference(resume_text, job_description) ==
    LET resume_skills == LowerSet(extract_skills(resume_text, DefaultSkillList))
        job_skills == LowerSet(extract_skills(job_description, DefaultSkillList))
        matching_skills == resume_skills \cap job_skills
    IN  [matching_skills |-> matching_skills,
         missing_skills |-> job_skills \ resume_skills,
         additional_skills |-> resume_skills,
         skill_match_percentage |->
            IF job_skills # {}
            THEN RMul(Rat(Cardinality(matching_skills), Cardinality(job_skills)),
                      RInt(100))
            ELSE RZero]

\* A plausible slip: a job description without a known skill counted as a
\* full match.
analyze_skill_gaps_full_without_skills(resume_text, job_description) ==
    LET resume_skills == LowerSet(extract_skills(resume_text, DefaultSkillList))
        job_skills == LowerSet(extract_skills(job_description, DefaultSkillList))
        matching_skills == resume_skills \cap job_skills
    IN  [matching_skills |-> matching_skills,
         missing_skills |-> job_skills \ resume_skills,
         additional_skills |-> resume_skills \ job_skills,
         skill_match_percentage |->
            IF job_skills # {}
            THEN RMul(Rat(Cardinality(matching_skills), Cardinality(job_skills)),
                      RInt(100))
            ELSE RInt(100)]

\* The skill sets are returned as lists in no fixed order: sets here.
analyze_skill_gaps(resume_text, job_description) ==
    LET resume_skills == LowerSet(extract_skills(resume_text, DefaultSkillList))
        job_skills == LowerSet(extract_skills(job_description, DefaultSkillList))
        matching_skills == resume_skills \cap job_skills
        missing_skills == job_skills \ resume_skills
        additional_skills == resume_skills \ job_skills
    IN  [matching_skills |-> matching_skills,
         missing_skills |-> missing_skills,
         additional_skills |-> additional_skills,
         skill_match_percentage |->
            IF job_skills # {}
            THEN RMul(Rat(Cardinality(matching_skills), Cardinality(job_skills)),
                      RInt(100))
            ELSE RZero]

\* A plausible slip: a sort by rising score that is then reversed, which
\* turns the order of the entries of equal score around.
RECURSIVE SortAscendingReversed(_)
SortAscendingReversed(rankings) ==
    IF rankings = <<>> THEN <<>>
    ELSE LET n == Len(rankings)
             init == SortAscendingReversed(SubSeq(rankings, 1, n - 1))
             x == rankings[n]
             k == Cardinality({i \in 1..Len(init) :
                                init[i].overall_score > x.overall_score})
         IN  SubSeq(init, 1, k) \o <<x>> \o SubSeq(init, k + 1, Len(init))

\* rankings.sort(key=overall_score, reverse=True): by falling score, entries
\* of equal score staying in the order they had.
RECURSIVE SortByOverallScore(_)
SortByOverallScore(rankings) ==
    IF rankings = <<>> THEN <<>>
    ELSE LET n == Len(rankings)
             init == SortByOverallScore(SubSeq(rankings, 1, n - 1))
             x == rankings[n]
             k == Cardinality({i \in 1..Len(init) :
                                init[i].overall_score >= x.overall_score})
         IN  SubSeq(init, 1, k) \o <<x>> \o SubSeq(init, k + 1, Len(init))

\* A plausible slip: the ranks given before the sort are kept.
KeepRanks(rankings) == rankings

\* The update of the ranks after the sort.
UpdateRanks(rankings) ==
    [i \in 1..Len(rankings) |-> [rankings[i] EXCEPT !.rank = i]]

\* The entry appended to rankings for document i.
RankingEntry(i, name, score_data) ==
    [rank |-> i,
     name |-> name,
     overall_score |-> score_data.overall_score,
     method_scores |-> score_data.method_scores]

\* The update of the ranks of the sorted list, the sorted list kept beside.
RankSorted(sorted) ==
    [rankings |-> UpdateRanks(sorted), sorted |-> sorted]

\* resumes_data is a sequence of <<name, text>>; cos[i] is the cosine input
\* of document i.  [rankings |-> the returned list, sorted |-> the list
\* right after the sort, whose ranks are still the input positions].
batch_resume_ranking_run(resumes_data, job_description, cos) ==
    RankSorted(SortByOverallScore(
        [i \in 1..Len(resumes_data) |->
            RankingEntry(i, resumes_data[i][1],
                         calculate_similarity_score(resumes_data[i][2],
                                                    job_description, cos[i]))]))

batch_resume_ranking(resumes_data, job_description, cos) ==
    batch_resume_ranking_run(resumes_data, job_description, cos).rankings

\* The ways a Python list that was made of the set S can start: the first
\* n elements (all of them when there are fewer), in any order.
FirstOfSet(S, n) ==
    LET m == IF Cardinality(S) < n THEN Cardinality(S) ELSE n
    IN  {s \in [1..m -> S] : \A i, j \in 1..m : s[i] = s[j] => i = j}

\* A term of the vectorizer as the string it is.
TermString(term) ==
    IF Len(term) = 1 THEN term[1] ELSE term[1] \o " " \o term[2]

\* missing_keywords of get_matching_recommendations
MissingKeywords(resume_text, job_description) ==
    SelectSeq(extract_important_keywords(job_description, 10),
              LAMBDA kw : ~KeywordIn(kw, LowerText(resume_text)))

\* The five tests of get_matching_recommendations, in the order they are
\* made, each with the message it appends.  shown is the start of the list
\* of missing skills; entities is what extract_entities finds in the resume.
RecommendationRules(skill_analysis, shown, resume_exp, required_exp, missing_keywords, entities) ==
    << [fires |-> skill_analysis.missing_skills # {},
        message |-> [heading |-> "Add missing skills", detail |-> shown]],
       [fires |-> required_exp > resume_exp,
        message |-> [heading |-> "Experience Gap",
                     detail |-> <<ToString(required_exp)>>]],
       [fires |-> missing_keywords # <<>>,
        message |-> [heading |-> "Include key terms",
                     detail |-> [i \in 1..Len(FirstN(missing_keywords, 3)) |->
                                    TermString(missing_keywords[i])]]],
       [fires |-> Get(entities, "ORG", <<>>) = <<>>,
        message |-> [heading |-> "Add company names", detail |-> <<>>]],
       [fires |-> RLt(skill_analysis.skill_match_percentage, RInt(50)),
        message |-> [heading |-> "Improve skill relevance",
                     detail |-> <<>>]] >>

\* A plausible slip: the test of the skill match made only when skills are
\* missing.
AppendedNested(rules) ==
    LET fired == SelectSeq(rules, LAMBDA rule : rule.fires)
        kept == SelectSeq(fired, LAMBDA rule :
                    rule.message.heading # "Improve skill relevance"
                    \/ rules[1].fires)
    IN  [i \in 1..Len(kept) |-> kept[i].message]

\* recommendations: the messages of the rules that fire, in their order.
Appended(rules) ==
    LET fired == SelectSeq(rules, LAMBDA rule : rule.fires)
    IN  [i \in 1..Len(fired) |-> fired[i].message]

get_matching_recommendations(resume_text, job_description, entities, shown) ==
    Appended(RecommendationRules(
        analyze_skill_gaps(resume_text, job_description), shown,
        extract_experience_years(resume_text),
        extract_required_experience(job_description),
        MissingKeywords(resume_text, job_description), entities))

-----------------------------------------------------------------------------
(* models/scoring_engine.py                                                *)

\* sum() of the values of a dict of booleans
CountTrue(d) == Cardinality({k \in DOMAIN d : d[k]})

\* A plausible slip: contact information wanted as email and phone both.
RequiredSectionsContactBoth(parsed_resume) ==
    [name |-> Get(parsed_resume, "name", "") # "",
     contact |-> Get(parsed_resume, "email", <<>>) # <<>>
                 /\ Get(parsed_resume, "phone", <<>>) # <<>>,
     skills |-> Len(Get(parsed_resume, "skills", <<>>)) > 0,
     education |-> Len(Get(parsed_resume, "education", <<>>)) > 0,
     experience |-> Get(parsed_resume, "experience_years", 0) > 0
                    \/ Len(Get(parsed_resume, "companies", <<>>)) > 0]

\* required_sections of calculate_completeness_score
RequiredSections(parsed_resume) ==
    [name |-> Get(parsed_resume, "name", "") # "",
     contact |-> Get(parsed_resume, "email", <<>>) # <<>>
                 \/ Get(parsed_resume, "phone", <<>>) # <<>>,
     skills |-> Len(Get(parsed_resume, "skills", <<>>)) > 0,
     education |-> Len(Get(parsed_resume, "education", <<>>)) > 0,
     experience |-> Get(parsed_resume, "experience_years", 0) > 0
                    \/ Len(Get(parsed_resume, "companies", <<>>)) > 0]

\* optional_sections of calculate_completeness_score: `in' on the dict of
\* sections tests its keys.
OptionalSections(parsed_resume) ==
    [projects |-> "projects" \in DOMAIN Get(parsed_resume, "sections", <<>>),
     certifications |->
        "certifications" \in DOMAIN Get(parsed_resume, "sections", <<>>),
     summary |->
        \E section \in {"summary", "objective"} :
            section \in DOMAIN Get(parsed_resume, "sections", <<>>)]

\* required_score + optional_score, with the two dicts it was made of.
CompletenessResult(required_sections, optional_sections) ==
    [score |->
        RAdd(RMul(Rat(CountTrue(required_sections),
                      Cardinality(DOMAIN required_sections)), <<7, 10>>),
             RMul(Rat(CountTrue(optional_sections),
                      Cardinality(DOMAIN optional_sections)), <<3, 10>>)),
     required_sections |-> required_sections,
     optional_sections |-> optional_sections]

calculate_completeness_score_run(parsed_resume) ==
    CompletenessResult(RequiredSections(parsed_resume),
                       OptionalSections(parsed_resume))

calculate_completeness_score(parsed_resume) ==
    calculate_completeness_score_run(parsed_resume).score

\* A plausible slip: the boundary of the best grade left out of it.
get_score_grade_above_90(score) ==
    IF RLt(RInt(90), score) THEN "A+"
    ELSE IF RLe(RInt(85), score) THEN "A"
    ELSE IF RLe(RInt(80), score) THEN "A-"
    ELSE IF RLe(RInt(75), score) THEN "B+"
    ELSE IF RLe(RInt(70), score) THEN "B"
    ELSE IF RLe(RInt(65), score) THEN "B-"
    ELSE IF RLe(RInt(60), score) THEN "C+"
    ELSE IF RLe(RInt(55), score) THEN "C"
    ELSE IF RLe(RInt(50), score) THEN "C-"
    ELSE "D"

get_score_grade(score) ==
    IF RLe(RInt(90), score) THEN "A+"
    ELSE IF RLe(RInt(85), score) THEN "A"
    ELSE IF RLe(RInt(80), score) THEN "A-"
    ELSE IF RLe(RInt(75), score) THEN "B+"
    ELSE IF RLe(RInt(70), score) THEN "B"
    ELSE IF RLe(RInt(65), score) THEN "B-"
    ELSE IF RLe(RInt(60), score) THEN "C+"
    ELSE IF RLe(RInt(55), score) THEN "C"
    ELSE IF RLe(RInt(50), score) THEN "C-"
    ELSE "D"

\* str.isalpha(): the tokens of the texts are words of letters, numerals or
\* punctuation marks.
IsAlpha(tok) == tok \notin NonLetterTokens

\* sent_tokenize: a sentence ends at a full stop or at the end of the text.
SentenceCount(text) ==
    Cardinality({i \in 1..Len(text) : text[i] = "."})
    + (IF text # <<>> /\ text[Len(text)] # "." THEN 1 ELSE 0)

\* The dict of get_text_statistics from the words and the number of
\* sentences (character_count, which no score reads, is left out).
TextStatistics(words, sentence_count) ==
    [word_count |-> Len(words),
     sentence_count |-> sentence_count,
     avg_words_per_sentence |->
        IF sentence_count > 0 THEN Rat(Len(words), sentence_count) ELSE RZero,
     unique_words |->
        Cardinality({lower(words[i]) : i \in {j \in 1..Len(words) : IsAlpha(words[j])}})]

\* word_tokenize(text) is the sequence of the tokens of the text.
get_text_statistics(text) ==
    IF text = <<>> THEN <<>>
    ELSE TextStatistics(text, SentenceCount(text))

\* sum(scores) / len(scores)
Average(scores) == RMul(RSum(scores), Rat(1, Len(scores)))

WordScore(word_count) ==
    IF 300 <= word_count /\ word_count <= 800 THEN ROne
    ELSE IF (200 <= word_count /\ word_count < 300)
            \/ (800 < word_count /\ word_count <= 1000) THEN <<4, 5>>
    ELSE IF (100 <= word_count /\ word_count < 200)
            \/ (1000 < word_count /\ word_count <= 1200) THEN <<3, 5>>
    ELSE <<2, 5>>

SentenceScore(avg_words_per_sentence) ==
    IF RLe(RInt(10), avg_words_per_sentence)
       /\ RLe(avg_words_per_sentence, RInt(25)) THEN ROne
    ELSE IF (RLe(RInt(8), avg_words_per_sentence)
             /\ RLt(avg_words_per_sentence, RInt(10)))
            \/ (RLt(RInt(25), avg_words_per_sentence)
                /\ RLe(avg_words_per_sentence, RInt(30))) THEN <<4, 5>>
    ELSE <<3, 5>>

DiversityScore(unique_words, word_count) ==
    IF word_count > 0
    THEN IF RLe(<<1, 2>>, Rat(unique_words, word_count)) THEN ROne
         ELSE IF RLe(<<2, 5>>, Rat(unique_words, word_count)) THEN <<4, 5>>
         ELSE IF RLe(<<3, 10>>, Rat(unique_words, word_count)) THEN <<3, 5>>
         ELSE <<2, 5>>
    ELSE RZero

\* The scoring of calculate_content_quality_score from the statistics on.
ContentQuality(stats) ==
    Average(<<WordScore(Get(stats, "word_count", 0)),
              SentenceScore(Get(stats, "avg_words_per_sentence", RZero)),
              DiversityScore(Get(stats, "unique_words", 0),
                             Get(stats, "word_count", 0))>>)

calculate_content_quality_score(resume_text) ==
    IF resume_text = <<>> THEN RZero
    ELSE ContentQuality(get_text_statistics(resume_text))

\* The skills of config that are part of a longer skill name in lower case
\* (the `in' of two strings); a name holds itself as well.
SubstringTable ==
    ("javascript" :> {"java"}) @@ ("postgresql" :> {"sql"}) @@
    ("mysql" :> {"sql"}) @@ ("github" :> {"git"}) @@
    ("team leadership" :> {"leadership"})

IsIn(part, whole) ==
    part = whole \/ (whole \in DOMAIN SubstringTable /\ part \in SubstringTable[whole])

IsTechnicalSkill(skill) ==
    \E i \in 1..Len(TECHNICAL_SKILLS) :
        IsIn(lower(TECHNICAL_SKILLS[i]), lower(skill))

IsSoftSkill(skill) ==
    ~IsTechnicalSkill(skill)
    /\ \E i \in 1..Len(SOFT_SKILLS) : IsIn(lower(SOFT_SKILLS[i]), lower(skill))

QuantityScore(total_skills) ==
    IF 8 <= total_skills /\ total_skills <= 15 THEN ROne
    ELSE IF (5 <= total_skills /\ total_skills < 8)
            \/ (15 < total_skills /\ total_skills <= 20) THEN <<4, 5>>
    ELSE IF (3 <= total_skills /\ total_skills < 5)
            \/ (20 < total_skills /\ total_skills <= 25) THEN <<3, 5>>
    ELSE <<2, 5>>

TechScore(tech_skills_count) ==
    IF tech_skills_count >= 5 THEN ROne
    ELSE IF tech_skills_count >= 3 THEN <<4, 5>>
    ELSE IF tech_skills_count >= 1 THEN <<3, 5>>
    ELSE <<1, 5>>

\* A plausible slip: the best balance given for either kind of skill.
BalanceScoreEither(tech_skills_count, soft_skills_count) ==
    IF tech_skills_count > 0 \/ soft_skills_count > 0 THEN ROne
    ELSE <<3, 10>>

BalanceScore(tech_skills_count, soft_skills_count) ==
    IF tech_skills_count > 0 /\ soft_skills_count > 0 THEN ROne
    ELSE IF tech_skills_count > 0 \/ soft_skills_count > 0 THEN <<7, 10>>
    ELSE <<3, 10>>

\* The scoring of calculate_skills_relevance_score from the counts on.
SkillsRelevance(total_skills, tech_skills_count, soft_skills_count) ==
    Average(<<QuantityScore(total_skills),
              TechScore(tech_skills_count),
              BalanceScore(tech_skills_count, soft_skills_count)>>)

SkillsRelevanceOf(skills) ==
    IF skills = <<>> THEN RZero
    ELSE SkillsRelevance(
            Len(skills),
            Cardinality({i \in 1..Len(skills) : IsTechnicalSkill(skills[i])}),
            Cardinality({i \in 1..Len(skills) : IsSoftSkill(skills[i])}))

calculate_skills_relevance_score(parsed_resume) ==
    SkillsRelevanceOf(Get(parsed_resume, "skills", <<>>))

YearsScore(experience_years) ==
    IF experience_years >= 5 THEN ROne
    ELSE IF experience_years >= 3 THEN <<4, 5>>
    ELSE IF experience_years >= 1 THEN <<3, 5>>
    ELSE IF experience_years > 0 THEN <<2, 5>>
    ELSE RZero

CompanyScore(companies) ==
    IF Len(companies) >= 3 THEN ROne
    ELSE IF Len(companies) >= 2 THEN <<4, 5>>
    ELSE IF Len(companies) >= 1 THEN <<3, 5>>
    ELSE <<1, 5>>

ProgressionScore(designations) ==
    IF Len(designations) >= 2 THEN ROne
    ELSE IF Len(designations) >= 1 THEN <<7, 10>>
    ELSE <<3, 10>>

calculate_experience_score(parsed_resume) ==
    Average(<<YearsScore(Get(parsed_resume, "experience_years", 0)),
              CompanyScore(Get(parsed_resume, "companies", <<>>)),
              ProgressionScore(Get(parsed_resume, "designations", <<>>))>>)

\* The elements of a sequence that pass a test given as a set of positions.
RECURSIVE SelectAt(_, _)
SelectAt(seq, keep) ==
    IF seq = <<>> THEN <<>>
    ELSE SelectAt(SubSeq(seq, 1, Len(seq) - 1), keep)
         \o (IF Len(seq) \in keep THEN <<seq[Len(seq)]>> ELSE <<>>)

\* The floats of completeness and skills_relevance as calculate_overall_score
\* computes them: a sum worth exactly 0.8 (5/5 * 0.7 + 1/3 * 0.3, and sum/3 of
\* the three skill tiers that add up to 2.4) comes out as 0.7999999999999999,
\* a value under 0.8 and above every other threshold; every other sum
\* compares as its exact value does.
ComputedFloat(score) ==
    IF RLe(score, <<4, 5>>) /\ RLe(<<4, 5>>, score) THEN <<7999, 10000>>
    ELSE score

\* The names of the missing fields, in the order of the tests.
MissingSections(parsed_resume) ==
    SelectAt(<<"name", "contact information", "skills section",
               "education details">>,
             {i \in 1..4 :
                \/ i = 1 /\ Get(parsed_resume, "name", "") = ""
                \/ i = 2 /\ Get(parsed_resume, "email", <<>>) = <<>>
                         /\ Get(parsed_resume, "phone", <<>>) = <<>>
                \/ i = 3 /\ Get(parsed_resume, "skills", <<>>) = <<>>
                \/ i = 4 /\ Get(parsed_resume, "education", <<>>) = <<>>})

\* The feedback messages by their headings, in the order of the rules; the
\* message of the missing fields carries their names.
FeedbackRules(scores, parsed_resume, missing_sections) ==
    <<[fires |-> RLt(scores.completeness, <<7, 10>>) /\ missing_sections # <<>>,
       message |-> <<"Missing Information">> \o missing_sections],
      [fires |-> RLt(scores.content_quality, <<3, 5>>),
       message |-> <<"Improve Content">>],
      [fires |-> RLt(scores.skills_relevance, <<3, 5>>)
                 /\ Len(Get(parsed_resume, "skills", <<>>)) < 5,
       message |-> <<"Add More Skills">>],
      [fires |-> RLt(scores.skills_relevance, <<3, 5>>)
                 /\ ~(Len(Get(parsed_resume, "skills", <<>>)) < 5)
                 /\ Len(Get(parsed_resume, "skills", <<>>)) > 20,
       message |-> <<"Optimize Skills">>],
      [fires |-> RLt(scores.experience, <<1, 2>>)
                 /\ Get(parsed_resume, "experience_years", 0) = 0,
       message |-> <<"Add Experience">>],
      [fires |-> RLt(scores.experience, <<1, 2>>)
                 /\ Get(parsed_resume, "experience_years", 0) # 0,
       message |-> <<"Enhance Experience">>],
      [fires |-> RLt(RZero, Get(scores, "job_match", RZero))
                 /\ RLt(Get(scores, "job_match", RZero), <<3, 5>>),
       message |-> <<"Improve Job Match">>],
      [fires |-> RLe(<<4, 5>>, scores.completeness),
       message |-> <<"Complete Profile">>],
      [fires |-> RLe(<<4, 5>>, scores.skills_relevance),
       message |-> <<"Strong Skills Profile">>]>>

\* A plausible slip: the function returns at the first rule that fires.
FiredMessagesEarlyExit(rules) ==
    LET fired == SelectAt(rules, {i \in 1..Len(rules) : rules[i].fires})
    IN  [i \in 1..(IF fired = <<>> THEN 0 ELSE 1) |-> fired[i].message]

FiredMessages(rules) ==
    LET fired == SelectAt(rules, {i \in 1..Len(rules) : rules[i].fires})
    IN  [i \in 1..Len(fired) |-> fired[i].message]

generate_feedback(scores, parsed_resume) ==
    FiredMessages(FeedbackRules(scores, parsed_resume,
                                MissingSections(parsed_resume)))

\* job_description is None (the empty sequence here) or <<text>>.
JobMatch(resume_text, job_description, cos) ==
    IF job_description # <<>> /\ job_description[1] # <<>>
    THEN Rat(calculate_similarity_score(resume_text, job_description[1],
                                        cos).overall_score, 10000)
    ELSE RZero

CategoryOrder ==
    <<"completeness", "content_quality", "skills_relevance", "experience",
      "job_match">>

\* A plausible slip: the weights of completeness and job_match exchanged.
OverallWeightsExchanged ==
    [completeness |-> <<1, 10>>, content_quality |-> <<1, 4>>,
     skills_relevance |-> <<1, 5>>, experience |-> <<3, 20>>,
     job_match |-> <<3, 10>>]

OverallWeights ==
    [completeness |-> <<3, 10>>, content_quality |-> <<1, 4>>,
     skills_relevance |-> <<1, 5>>, experience |-> <<3, 20>>,
     job_match |-> <<1, 10>>]

\* sum(scores[category] * weights[category] for category in scores)
WeightedOverall(scores, weights) ==
    RSum([i \in 1..Len(CategoryOrder) |->
            RMul(scores[CategoryOrder[i]], weights[CategoryOrder[i]])])

\* The returned dict of calculate_overall_score, with its locals `scores'
\* and `overall_score'; the grade is taken from the score before rounding.
OverallResult(scores, overall_score, parsed_resume) ==
    [result |->
        [overall_score |-> Round2Pct(overall_score),
         category_scores |-> [k \in DOMAIN scores |-> Round2Pct(scores[k])],
         grade |-> get_score_grade(RMul(overall_score, RInt(100))),
         feedback |-> generate_feedback(
                         [scores EXCEPT
                            !.completeness = ComputedFloat(@),
                            !.skills_relevance = ComputedFloat(@)],
                         parsed_resume)],
     scores |-> scores,
     overall_score |-> overall_score]

OverallOf(scores, parsed_resume) ==
    OverallResult(scores, WeightedOverall(scores, OverallWeights), parsed_resume)

calculate_overall_score_run(parsed_resume, resume_text, job_description, cos) ==
    OverallOf([completeness |-> calculate_completeness_score(parsed_resume),
               content_quality |-> calculate_content_quality_score(resume_text),
               skills_relevance |-> calculate_skills_relevance_score(parsed_resume),
               experience |-> calculate_experience_score(parsed_resume),
               job_match |-> JobMatch(resume_text, job_description, cos)],
              parsed_resume)

calculate_overall_score(parsed_resume, resume_text, job_description, cos) ==
    calculate_overall_score_run(parsed_resume, resume_text, job_description,
                                cos).result

-----------------------------------------------------------------------------
(* models/resume_parser.py: ResumeParserModel.  A resume text is a         *)
(* sequence of lines, a line a sequence of tokens (the blank line <<>>).   *)

\* The keys of section_patterns in the order of the dict.
SectionOrder ==
    <<"objective", "summary", "experience", "education", "skills", "projects",
      "certifications", "achievements">>

\* The patterns are searched anywhere in the line, whatever the case: the
\* sections whose pattern occurs inside a token of the model's lines.
PatternTable ==
    ("Objective" :> {"objective"}) @@ ("Summary" :> {"summary"}) @@
    ("Profile" :> {"summary"}) @@ ("EXPERIENCE" :> {"experience"}) @@
    ("experienced" :> {"experience"}) @@ ("Education" :> {"education"}) @@
    ("Skills" :> {"skills"}) @@ ("PROJECTS" :> {"projects"}) @@
    ("Certifications" :> {"certifications"}) @@
    ("training" :> {"certifications"}) @@ ("Awards" :> {"achievements"})

\* The sections whose pattern re.search finds in the line.
MatchingSections(line) ==
    UNION {PatternTable[line[i]] :
            i \in {j \in 1..Len(line) : line[j] \in DOMAIN PatternTable}}

\* The section of the first pattern of the dict that matches (the `break').
FirstMatchingSection(line) ==
    SectionOrder[SetMin({i \in 1..Len(SectionOrder) :
                            SectionOrder[i] \in MatchingSections(line)})]

\* A plausible slip: the header line is added to the section it opens.
SectionStepKeepingHeader(state, line) ==
    IF line = <<>> THEN state
    ELSE IF MatchingSections(line) # {}
    THEN [state EXCEPT !.sections[FirstMatchingSection(line)] =
                                @ \o line \o <<" ">>,
                       !.current_section = FirstMatchingSection(line)]
    ELSE IF state.current_section # "None"
    THEN [state EXCEPT !.sections[state.current_section] =
                                @ \o line \o <<" ">>]
    ELSE state

\* One turn of the loop over the lines: state is [sections |-> the dict,
\* current_section |-> a section name or "None"].  `line + ' '' is added
\* as the tokens of the line and the token " " of the space.
SectionStep(state, line) ==
    IF line = <<>> THEN state
    ELSE IF MatchingSections(line) # {}
    THEN [state EXCEPT !.current_section = FirstMatchingSection(line)]
    ELSE IF state.current_section # "None"
            /\ state.current_section \in DOMAIN state.sections
    THEN [state EXCEPT !.sections[state.current_section] =
                                @ \o line \o <<" ">>]
    ELSE state

\* The dict of sections and the cursor before the first line.
SectionStart ==
    [sections |-> [k \in {SectionOrder[i] : i \in 1..Len(SectionOrder)} |-> <<>>],
     current_section |-> "None"]

RECURSIVE SectionLoop(_, _)
SectionLoop(state, lines) ==
    IF lines = <<>> THEN state
    ELSE SectionLoop(SectionStep(state, Head(lines)), Tail(lines))

\* A plausible slip: the sections returned as the loop leaves them.
StripTextNot(text) == text

\* str.strip() of an accumulated text: the spaces at its two ends go.
RECURSIVE StripText(_)
StripText(text) ==
    IF text = <<>> THEN <<>>
    ELSE IF Head(text) = " " THEN StripText(Tail(text))
    ELSE IF text[Len(text)] = " "
    THEN StripText(SubSeq(text, 1, Len(text) - 1))
    ELSE text

\* The clean-up loop: every section stripped.
StrippedSections(sections) ==
    [section \in DOMAIN sections |-> StripText(sections[section])]

extract_resume_sections(lines) ==
    StrippedSections(SectionLoop(SectionStart, lines).sections)

-----------------------------------------------------------------------------
(* models/resume_parser.py: the dicts of the parser.  A Python value of a  *)
(* dict is a record naming its type (tag) with one field for each type, so *)
(* that None, strings, lists, numbers and dicts can stand in one dict.     *)

PyValue(tag, s, l, n, d) == [tag |-> tag, s |-> s, l |-> l, n |-> n, d |-> d]

PyNone == PyValue("None", "", <<>>, 0, <<>>)
PyStr(s) == PyValue("str", s, <<>>, 0, <<>>)
PyList(l) == PyValue("list", "", l, 0, <<>>)
PyInt(n) == PyValue("int", "", <<>>, n, <<>>)
PyDict(d) == PyValue("dict", "", <<>>, 0, d)

\* bool(v): `not v' is ~Truthy(v).
Truthy(v) ==
    CASE v.tag = "None" -> FALSE
      [] v.tag = "str" -> v.s # ""
      [] v.tag = "list" -> v.l # <<>>
      [] v.tag = "int" -> v.n # 0
      [] v.tag = "dict" -> DOMAIN v.d # {}

\* str.strip on the strings of the model.
StripTable == (" " :> "") @@ (" SQL " :> "SQL")

strip(s) == IF s \in DOMAIN StripTable THEN StripTable[s] ELSE s

\* The tokens of all lines, in order (white space and line ends separate
\* tokens alike).
RECURSIVE Flatten(_)
Flatten(lines) ==
    IF lines = <<>> THEN <<>> ELSE Head(lines) \o Flatten(Tail(lines))

\* The text as one string: tokens joined by blanks, lines by line ends.
RECURSIVE JoinTokens(_)
JoinTokens(line) ==
    IF line = <<>> THEN ""
    ELSE IF Len(line) = 1 THEN line[1]
    ELSE line[1] \o " " \o JoinTokens(Tail(line))

RECURSIVE TextString(_)
TextString(lines) ==
    IF lines = <<>> THEN ""
    ELSE IF Len(lines) = 1 THEN JoinTokens(lines[1])
    ELSE JoinTokens(lines[1]) \o "\n" \o TextString(Tail(lines))

\* Tokens matching email_pattern, and tokens matching one of phone_patterns.
EmailTokens == {"ann@lee.org"}
PhoneTokens == {"5550100000"}

\* re.findall(email_pattern, text)
extract_email(text) == SelectSeq(text, LAMBDA tok : tok \in EmailTokens)

\* phones.extend(re.findall(pattern, text)) for each of phone_patterns
extract_phone(text) == SelectSeq(text, LAMBDA tok : tok \in PhoneTokens)

\* Tokens whose lower case has one of education_keywords as a substring
\* ("summary" has "ma", "bsc" is a keyword).
EducationTokens == {"Summary", "BSc"}

\* The sentences with an education keyword, each once.  The texts of the
\* model have no sentence end in them: sent_tokenize gives the whole text.
extract_education(lines) ==
    IF \E i \in 1..Len(Flatten(lines)) : Flatten(lines)[i] \in EducationTokens
    THEN <<strip(TextString(lines))>>
    ELSE <<>>

\* The six labels extract_entities keeps.
EntityLabels == {"PERSON", "ORG", "DATE", "GPE", "MONEY", "PERCENT"}

\* extract_entities: nlp is whether load_spacy_model gave a model, ents the
\* entities the model finds in the text, each <<label, text>>, in the order
\* of the text.  Without a model the result is the empty dict.
extract_entities(nlp, ents) ==
    IF ~nlp THEN <<>>
    ELSE [label \in EntityLabels |->
            LET kept == SelectSeq(ents, LAMBDA ent : ent[1] = label)
            IN  [i \in 1..Len(kept) |-> kept[i][2]]]

\* parse_resume_with_pyresparser: the ten keys of the external parse, each
\* with its default when the library's data has no such key (a key holding
\* None keeps None); an exception of the library gives the empty dict.
parse_resume_with_pyresparser(outcome) ==
    IF outcome.kind = "raised" THEN <<>>
    ELSE [name |-> Get(outcome.data, "name", PyStr("")),
          email |-> Get(outcome.data, "email", PyStr("")),
          mobile_number |-> Get(outcome.data, "mobile_number", PyStr("")),
          skills |-> Get(outcome.data, "skills", PyList(<<>>)),
          education |-> Get(outcome.data, "college_name", PyList(<<>>)),
          degree |-> Get(outcome.data, "degree", PyList(<<>>)),
          designation |-> Get(outcome.data, "designation", PyList(<<>>)),
          companies |-> Get(outcome.data, "company_names", PyList(<<>>)),
          experience |-> Get(outcome.data, "total_experience", PyInt(0)),
          no_of_pages |-> Get(outcome.data, "no_of_pages", PyInt(1))]

\* parse_resume_manual: the eight keys of the manual parse.  entities is
\* what extract_entities (spaCy) finds in the text.
parse_resume_manual(lines, entities) ==
    [name |-> IF Get(entities, "PERSON", <<>>) # <<>>
              THEN PyStr(entities["PERSON"][1]) ELSE PyStr(""),
     email |-> PyList(extract_email(Flatten(lines))),
     phone |-> PyList(extract_phone(Flatten(lines))),
     skills |-> PyList(extract_skills(Flatten(lines), DefaultSkillList)),
     education |-> PyList(extract_education(lines)),
     experience_years |-> PyInt(extract_experience_years(Flatten(lines))),
     entities |-> PyDict(entities),
     sections |-> PyDict(extract_resume_sections(lines))]

\* A plausible slip: the primary's value kept whenever its key is there.
MergeWhenPresent(parsed_data, manual_data) ==
    [key \in DOMAIN parsed_data \cup DOMAIN manual_data |->
        IF key \in DOMAIN manual_data /\ key \notin DOMAIN parsed_data
        THEN manual_data[key] ELSE parsed_data[key]]

\* The merge of parse_resume: manual parsing as fallback.
Merge(parsed_data, manual_data) ==
    [key \in DOMAIN parsed_data \cup DOMAIN manual_data |->
        IF /\ key \in DOMAIN manual_data
           /\ (key \notin DOMAIN parsed_data \/ ~Truthy(parsed_data[key]))
        THEN manual_data[key] ELSE parsed_data[key]]

\* if isinstance(v, str): v = [v] if v else []
StrToList(v) ==
    IF v.tag = "str" THEN (IF v.s # "" THEN PyList(<<v.s>>) ELSE PyList(<<>>))
    ELSE v

\* [x.strip() for x in v if x.strip()], after a string was made a list of
\* one.
StrippedList(v) ==
    LET items == IF v.tag = "str" THEN <<v.s>> ELSE v.l
        stripped == [i \in 1..Len(items) |-> strip(items[i])]
    IN  PyList(SelectSeq(stripped, LAMBDA x : x # ""))

\* cleaned_data['phone'] with a mobile number of the external parse added.
PhoneWithMobile(phone, mobile) ==
    IF Truthy(mobile) /\ \A i \in 1..Len(phone.l) : phone.l[i] # mobile.s
    THEN PyList(Append(phone.l, mobile.s)) ELSE phone

\* cleaned_data['experience_years']: taken from the text of `experience'
\* when there is one and no years were found.
CleanedYears(data) ==
    IF /\ Truthy(Get(data, "experience", PyNone))
       /\ ~Truthy(Get(data, "experience_years", PyInt(0)))
    THEN PyInt(extract_experience_years(
                    <<ToString(Get(data, "experience", PyNone).n)>>))
    ELSE Get(data, "experience_years", PyInt(0))

clean_parsed_data(data) ==
    [name |-> IF Truthy(Get(data, "name", PyNone))
              THEN PyStr(strip(Get(data, "name", PyStr("")).s))
              ELSE PyStr(""),
     email |-> StrToList(Get(data, "email", PyList(<<>>))),
     phone |-> PhoneWithMobile(StrToList(Get(data, "phone", PyList(<<>>))),
                               Get(data, "mobile_number", PyStr(""))),
     skills |-> StrippedList(Get(data, "skills", PyList(<<>>))),
     education |-> StrippedList(Get(data, "education", PyList(<<>>))),
     experience_years |-> CleanedYears(data),
     companies |-> StrToList(Get(data, "companies", PyList(<<>>))),
     designations |-> StrToList(Get(data, "designation", PyList(<<>>))),
     sections |-> Get(data, "sections", PyDict(<<>>)),
     entities |-> Get(data, "entities", PyDict(<<>>)),
     degree |-> StrToList(Get(data, "degree", PyList(<<>>))),
     no_of_pages |-> Get(data, "no_of_pages", PyInt(1))]

\* parsed_data after the external parse: the empty dict without a file.
ExternalParse(outcome) ==
    IF outcome.kind = "no_file" THEN <<>>
    ELSE parse_resume_with_pyresparser(outcome)

parse_resume(outcome, lines, entities) ==
    clean_parsed_data(Merge(ExternalParse(outcome),
                            parse_resume_manual(lines, entities)))

\* The parsed resume as the scoring engine reads it: each value as the
\* Python object it is, None as a value that is no sequence.
PlainValue(v) ==
    CASE v.tag = "None" -> "None"
      [] v.tag = "str" -> v.s
      [] v.tag = "list" -> v.l
      [] v.tag = "int" -> v.n
      [] v.tag = "dict" -> v.d

PlainResume(parsed) == [key \in DOMAIN parsed |-> PlainValue(parsed[key])]

\* len(None) raises TypeError in calculate_completeness_score: companies is
\* read only when no years of experience were found.
CompletenessRaises(parsed) ==
    /\ parsed.experience_years.n = 0
    /\ parsed.companies.tag # "list"

-----------------------------------------------------------------------------
(* app.py: the three analysis modes.  An uploaded file is a record of its  *)
(* name, the text extract_text returns for it (<<>> when nothing could be  *)
(* extracted) and the cosine of that text and the job description.         *)

\* A plausible slip: the test of the extracted text left out.
NoTextNever(resume_text) == FALSE

\* not resume_text
NoText(resume_text) == resume_text = <<>>

\* job_description.strip() is empty
Blank(job_description) == job_description = <<>>

\* The record of a call of a parsing, scoring or similarity function: its
\* name and the places of the documents whose text it was given.
Call(function, docs) == [function |-> function, docs |-> docs]

NoError == ""

-----------------------------------------------------------------------------
(* The calls of the NLP backend (nltk's word_tokenize and sent_tokenize,   *)
(* which raise LookupError when their data is not installed) and what      *)
(* becomes of an exception they raise.  tokenizer_ok says whether the      *)
(* backend answers; an outcome is an exception leaving the function or the *)
(* value it returns.                                                       *)

Raised == [raised |-> TRUE, value |-> <<>>]

Returned(value) == [raised |-> FALSE, value |-> value]

\* remove_stopwords calls word_tokenize outside any try.
remove_stopwords_outcome(text, tokenizer_ok) ==
    IF ~tokenizer_ok THEN Raised ELSE Returned(remove_stopwords(text))

\* lemmatize_text calls word_tokenize outside any try.
lemmatize_text_outcome(text, tokenizer_ok) ==
    IF ~tokenizer_ok THEN Raised ELSE Returned(lemmatize_text(text))

\* preprocess_for_similarity has no handler: an exception of either step
\* leaves it.
preprocess_for_similarity_outcome(text, tokenizer_ok) ==
    LET no_stopwords == remove_stopwords_outcome(clean_text(text), tokenizer_ok)
    IN  IF no_stopwords.raised THEN Raised
        ELSE lemmatize_text_outcome(no_stopwords.value, tokenizer_ok)

\* get_text_statistics: `if not text: return {}' comes before word_tokenize,
\* which is called outside any try.
get_text_statistics_outcome(text, tokenizer_ok) ==
    IF text = <<>> THEN Returned(<<>>)
    ELSE IF ~tokenizer_ok THEN Raised
    ELSE Returned(get_text_statistics(text))

\* calculate_similarity_score preprocesses both texts before the methods
\* that have handlers of their own, and outside any try.
calculate_similarity_score_outcome(resume_text, job_description, cos, tokenizer_ok) ==
    IF preprocess_for_similarity_outcome(resume_text, tokenizer_ok).raised
       \/ preprocess_for_similarity_outcome(job_description, tokenizer_ok).raised
    THEN Raised
    ELSE Returned(calculate_similarity_score(resume_text, job_description, cos))

\* calculate_content_quality_score returns 0.0 for the empty text and takes
\* the statistics of any other.
calculate_content_quality_score_outcome(resume_text, tokenizer_ok) ==
    IF resume_text = <<>> THEN Returned(RZero)
    ELSE IF get_text_statistics_outcome(resume_text, tokenizer_ok).raised
    THEN Raised
    ELSE Returned(calculate_content_quality_score(resume_text))

\* calculate_overall_score has no handler: the content quality comes second,
\* the similarity (only with a job description) fifth.
calculate_overall_score_outcome(parsed_resume, resume_text, job_description, cos, tokenizer_ok) ==
    IF calculate_content_quality_score_outcome(resume_text, tokenizer_ok).raised
    THEN Raised
    ELSE IF job_description # <<>> /\ job_description[1] # <<>>
            /\ calculate_similarity_score_outcome(
                    resume_text, job_description[1], cos, tokenizer_ok).raised
    THEN Raised
    ELSE Returned(calculate_overall_score(parsed_resume, resume_text,
                                          job_description, cos))

-----------------------------------------------------------------------------
(* models/job_matcher.py: the TfidfVectorizer that JobMatcher.__init__     *)
(* makes and every call shares.  Its state is the fitted vocabulary; the   *)
(* operations below are those of the matcher with that state passed in and *)
(* handed back: [value |-> what the method returns, vectorizer |-> the     *)
(* state it leaves].                                                       *)

Unfitted == [fitted |-> FALSE, vocabulary |-> {}]

Fitted(vocabulary) == [fitted |-> TRUE, vocabulary |-> vocabulary]

\* A plausible slip: a vectorizer that was fitted before is not fitted again
\* (transform in the place of fit_transform).
fit_transform_once(vectorizer, documents) ==
    IF vectorizer.fitted THEN [raised |-> FALSE, vectorizer |-> vectorizer]
    ELSE IF UNION {Terms(documents[i]) : i \in 1..Len(documents)} = {}
    THEN [raised |-> TRUE, vectorizer |-> vectorizer]
    ELSE [raised |-> FALSE,
          vectorizer |->
            Fitted(UNION {Terms(documents[i]) : i \in 1..Len(documents)})]

\* self.vectorizer.fit_transform(documents): the vocabulary is learned anew
\* from the documents, whatever it was; an empty vocabulary raises
\* ValueError before anything is stored.
fit_transform(vectorizer, documents) ==
    IF UNION {Terms(documents[i]) : i \in 1..Len(documents)} = {}
    THEN [raised |-> TRUE, vectorizer |-> vectorizer]
    ELSE [raised |-> FALSE,
          vectorizer |->
            Fitted(UNION {Terms(documents[i]) : i \in 1..Len(documents)})]

\* The row of a text in the matrix: the count of each term of the
\* vocabulary in the text.
CountsOver(vocabulary, text) ==
    LET t == SklearnTokens(text) IN
    [x \in vocabulary |-> Cardinality({i \in 1..Len(t) : MatchesAt(x, t, i)})]

\* The cosine of two rows: 0 when no term is in both, 1 when one row is a
\* multiple of the other, and the input cos otherwise.
CosineOfRows(c1, c2, cos) ==
    IF ~\E x \in DOMAIN c1 : c1[x] > 0 /\ c2[x] > 0 THEN RZero
    ELSE IF \A x, y \in DOMAIN c1 : c1[x] * c2[y] = c1[y] * c2[x] THEN ROne
    ELSE cos

FittedCosine(fit, text1, text2, cos) ==
    [value |-> IF fit.raised THEN RZero
               ELSE CosineOfRows(CountsOver(fit.vectorizer.vocabulary, text1),
                                 CountsOver(fit.vectorizer.vocabulary, text2),
                                 cos),
     vectorizer |-> fit.vectorizer]

tfidf_cosine_similarity_with(vectorizer, text1, text2, cos) ==
    FittedCosine(fit_transform(vectorizer, <<text1, text2>>), text1, text2, cos)

\* The features with a score over 0, by falling score, from the row of the
\* one document.
FittedKeywords(fit, processed_text, num_keywords) ==
    [value |->
        IF fit.raised THEN <<>>
        ELSE FirstN(SortByScore(
                        {x \in fit.vectorizer.vocabulary :
                            CountsOver(fit.vectorizer.vocabulary,
                                       processed_text)[x] > 0},
                        CountsOver(fit.vectorizer.vocabulary, processed_text)),
                    num_keywords),
     vectorizer |-> fit.vectorizer]

extract_important_keywords_with(vectorizer, text, num_keywords) ==
    IF preprocess_for_similarity(text) = <<>>
    THEN [value |-> <<>>, vectorizer |-> vectorizer]
    ELSE FittedKeywords(
            fit_transform(vectorizer, <<preprocess_for_similarity(text)>>),
            preprocess_for_similarity(text), num_keywords)

KeywordScore(job_keywords, resume_lower) ==
    IF job_keywords = <<>> THEN RZero
    ELSE Rat(Cardinality({i \in 1..Len(job_keywords) :
                            KeywordIn(job_keywords[i], resume_lower)}),
             Len(job_keywords))

keyword_matching_score_with(vectorizer, resume_text, job_description) ==
    LET keywords == extract_important_keywords_with(vectorizer,
                                                    job_description, 20)
    IN  [value |-> KeywordScore(keywords.value, LowerText(resume_text)),
         vectorizer |-> keywords.vectorizer]

\* The second use of the vectorizer in calculate_similarity_score starts
\* from the state the first one left.
MethodsWith(tfidf, resume_text, job_description) ==
    LET keyword == keyword_matching_score_with(tfidf.vectorizer, resume_text,
                                               job_description)
    IN  [value |->
            WeightedResult(
                [tfidf_cosine |-> tfidf.value,
                 keyword_match |-> keyword.value,
                 skills_match |->
                    skills_matching_score(resume_text, job_description),
                 experience_match |->
                    experience_matching_score(resume_text,
                                              job_description)]).result,
         vectorizer |-> keyword.vectorizer]

calculate_similarity_score_with(vectorizer, resume_text, job_description, cos) ==
    IF ShortCircuit(preprocess_for_similarity(resume_text),
                    preprocess_for_similarity(job_description))
    THEN [value |-> [overall_score |-> 0, method_scores |-> <<>>],
          vectorizer |-> vectorizer]
    ELSE MethodsWith(
            tfidf_cosine_similarity_with(
                vectorizer, preprocess_for_similarity(resume_text),
                preprocess_for_similarity(job_description), cos),
            resume_text, job_description)

-----------------------------------------------------------------------------
(* app.py and utils/visualization.py: what the callers of                  *)
(* calculate_similarity_score do with the result they get.                 *)

\* create_method_scores_radar closes the polygon with categories[0] and
\* values[0]: IndexError on the empty dict of method scores.
RadarRaises(method_scores) == DOMAIN method_scores = {}

\* The row of the results table reads rank['method_scores']['tfidf_cosine'],
\* ['skills_match'] and ['keyword_match']: KeyError when one is not there.
TableRowRaises(rank) ==
    ~({"tfidf_cosine", "skills_match", "keyword_match"}
        \subseteq DOMAIN rank.method_scores)

\* resume_vs_job_analysis from the similarity on: the gauge takes the
\* overall score, the progress bars loop over the method scores, the radar
\* chart is drawn from them.
VsJobDisplay(similarity_result) ==
    [similarity_result |-> similarity_result,
     raised |-> RadarRaises(similarity_result.method_scores)]

\* batch_resume_ranking of app.py from the ranking on: one table row for
\* each entry.
BatchDisplay(rankings) ==
    [rankings |-> rankings,
     raised |-> \E i \in 1..Len(rankings) : TableRowRaises(rankings[i])]

-----------------------------------------------------------------------------
(* The inputs of the model.                                                *)

\* The texts made of at most n of the given phrases.
RECURSIVE TextsOf(_, _)
TextsOf(phrases, n) ==
    IF n = 0 THEN {<<>>}
    ELSE LET shorter == TextsOf(phrases, n - 1) IN
         shorter \cup {t \o p : t \in shorter, p \in phrases}

ResumePhrases ==
    { <<"Python">>, <<"SQL", "leadership">>, <<"the">>,
      <<"3", "years", "skills">> }

JobPhrases ==
    { <<"python", "sql">>, <<"5", "years", "experience">>, <<"the">>,
      <<"team", "skills">>, <<"system">> }

ResumeTexts == TextsOf(ResumePhrases, MaxPhrases)
JobTexts == TextsOf(JobPhrases, MaxPhrases)

\* Texts for the skill operations: skills in both spellings, a skill of two
\* words and a word that is no skill.
SkillPhrases ==
    { <<"Python">>, <<"sql">>, <<"machine", "learning">>, <<"team">> }

SkillTexts == TextsOf(SkillPhrases, MaxPhrases)

\* Texts for the experience operations.
YearsResumeTexts ==
    {<<>>} \cup
    {<<ToString(n), "years">> : n \in 0..MaxYears} \cup
    {<<ToString(n), "+", "yrs", "of", "experience">> : n \in 0..MaxYears}

YearsJobTexts ==
    {<<>>} \cup
    {<<ToString(n), "years", "experience">> : n \in 0..MaxYears} \cup
    {<<"minimum", ToString(n), "years">> : n \in 0..MaxYears} \cup
    {<<ToString(n), "to", ToString(MaxYears), "years">> : n \in 0..MaxYears} \cup
    {<<ToString(n), "years">> : n \in 0..MaxYears}

\* The sequences of at most n elements of S.
SeqsUpTo(S, n) == UNION {[1..k -> S] : k \in 0..n}

\* Documents of a batch: <<name, text, cosine of the text and the job>>.
BatchDocs ==
    {"a.pdf", "b.pdf"} \X
    { <<<<"Python">>, <<1, 3>>>>, <<<<"Python">>, <<7, 8>>>>,
      <<<<"the">>, <<1, 3>>>> }

BatchJobs == { <<"python", "sql">>, <<"the">> }

BatchInputs ==
    { [resumes_data |-> [i \in 1..Len(d) |-> <<d[i][1], d[i][2][1]>>],
       job_description |-> j,
       cos |-> [i \in 1..Len(d) |-> d[i][2][2]]] :
        d \in SeqsUpTo(BatchDocs, MaxBatch), j \in BatchJobs }

-----------------------------------------------------------------------------
(* The state machine: a caller hands one operation of the engine its       *)
(* arguments, the operation runs to its end, and the caller takes the      *)
(* result (the pipeline is synchronous and keeps nothing between calls).   *)

\* The keys of the dict of sections that extract_resume_sections returns.
SectionNames ==
    {"objective", "summary", "experience", "education", "skills", "projects",
     "certifications", "achievements"}

\* Dicts of sections: none, the eight keys of the parser, and some of them.
SectionsSamples ==
    {[k \in K |-> <<>>] :
        K \in {{}, SectionNames, {"experience", "education", "skills"},
               {"projects"}, {"summary"}, {"objective", "certifications"}}}

\* Parsed resumes with each field empty or not.
ParsedResumes ==
    [name : {"", "Ann Lee"},
     email : {<<>>, <<"ann@lee.org">>},
     phone : {<<>>, <<"5550100">>},
     skills : {<<>>, <<"Python">>},
     education : {<<>>, <<"BSc">>},
     experience_years : {0, 3},
     companies : {<<>>, <<"Acme">>},
     designations : {<<>>},
     sections : SectionsSamples]

\* Scores around every boundary of the grades, in thousandths.
GradeScores ==
    {Rat(m, 1000) :
        m \in {5000 * k + d : k \in 0..20, d \in {-1, 0, 1, 2500}}
              \cap 0..100000}

\* A resume with nothing in it, as the parser returns it: the dict of
\* sections has its eight keys, each with an empty text.
EmptyResume ==
    [name |-> "", email |-> <<>>, phone |-> <<>>, skills |-> <<>>,
     education |-> <<>>, experience_years |-> 0, companies |-> <<>>,
     designations |-> <<>>, sections |-> [k \in SectionNames |-> <<>>]]

MidResume ==
    [name |-> "Ann Lee", email |-> <<"ann@lee.org">>, phone |-> <<>>,
     skills |-> <<"Python", "Excel", "team leadership">>,
     education |-> <<"BSc">>, experience_years |-> 2,
     companies |-> <<"Acme">>, designations |-> <<"Analyst">>,
     sections |-> [k \in SectionNames |-> <<>>]]

StrongResume ==
    [name |-> "Ann Lee", email |-> <<"ann@lee.org">>, phone |-> <<"5550100">>,
     skills |-> <<"Python", "java", "javascript", "MySQL", "docker", "aws",
                  "leadership", "Excel", "teamwork">>,
     education |-> <<"BSc", "MSc">>, experience_years |-> 6,
     companies |-> <<"Acme", "Initech", "Globex">>,
     designations |-> <<"Analyst", "Engineer">>,
     sections |-> [k \in SectionNames |-> <<>>]]

\* The resumes that are scored: the three above, each also without the dict
\* of sections and with other years of experience.
OverallResumes ==
    {[r EXCEPT !.experience_years = y, !.sections = sec] :
        r \in {EmptyResume, MidResume, StrongResume},
        y \in {0, 2, 6},
        sec \in {<<>>, [k \in SectionNames |-> <<>>]}}

Syllables ==
    <<"ba", "ce", "di", "fo", "gu", "ha", "je", "ka", "le", "mi", "no", "pu",
      "ra", "se", "ti", "vo", "zu">>

\* The i-th of the words made of two syllables.
MadeWord(i) ==
    Syllables[((i - 1) \div Len(Syllables)) + 1]
    \o Syllables[((i - 1) % Len(Syllables)) + 1]

\* A text of the given number of sentences, each of the given number of
\* words, all different, and a full stop.
MadeText(sentences, words) ==
    [i \in 1..(sentences * (words + 1)) |->
        IF i % (words + 1) = 0 THEN "."
        ELSE MadeWord(((i - 1) \div (words + 1)) * words + (i % (words + 1)))]

\* The resume texts that are scored: none, short ones, and one of 300 tokens
\* in 20 sentences.
OverallTexts == TextsOf(ResumePhrases, 1) \cup {MadeText(20, 14)}

\* The cosines of the texts that are scored: those of the similarity calls
\* and one that brings an overall score right under a grade boundary.
OverallCosines == CosineValues \cup {<<249, 1000>>}

\* No job description, or an empty or a short one.
OverallJobs == {<<>>} \cup {<<t>> : t \in TextsOf(JobPhrases, 1)}

\* The lines a resume text is made of: a blank line, headers, lines of
\* content, a line of content that holds a header word, and a line that
\* matches two patterns.
ResumeLines ==
    { <<>>, <<"Summary">>, <<"PROJECTS">>, <<"Python", "SQL">>,
      <<"experienced", "engineer">>, <<"Acme", "Corp">>,
      <<"Objective", "Summary">> }

\* A document of two sections: an Education header and two lines, a Skills
\* header and one line.
TwoSectionDocument ==
    << <<"Education">>, <<"BSc", "Data">>, <<"Acme", "Corp">>, <<"Skills">>,
       <<"Python", "SQL">> >>

ResumeLineTexts == SeqsUpTo(ResumeLines, MaxLines) \cup {TwoSectionDocument}

\* The lines of the resumes given to parse_resume: headers, skills, contact
\* details, education with years of experience, and a company.
ParseLines ==
    { <<"Summary">>, <<"PROJECTS">>, <<"Python", "SQL">>,
      <<"ann@lee.org", "5550100000">>,
      <<"BSc", "5", "years", "experience">>, <<"Acme", "Corp">> }

ParseTexts == SeqsUpTo(ParseLines, MaxParseLines)

\* What spaCy finds: nothing loaded, no entity, a person and a company.
EntitySamples ==
    { <<>>,
      [label \in EntityLabels |-> <<>>],
      [label \in EntityLabels |->
        CASE label = "PERSON" -> <<"Ann Lee", "Bo Ek">>
          [] label = "ORG" -> <<"Acme Corp">>
          [] OTHER -> <<>>] }

\* The values a key of the library's data can hold: None, an empty or
\* non-empty string, an empty or non-empty list (a number for the numbers).
RawValues ==
    [name |-> {PyNone, PyStr(""), PyStr(" SQL "), PyStr("Cy Day")},
     email |-> {PyNone, PyStr(""), PyStr("cy@day.io"), PyList(<<>>),
                PyList(<<"cy@day.io">>)},
     mobile_number |-> {PyNone, PyStr(""), PyStr("5550100000"),
                        PyStr("5550199999")},
     skills |-> {PyNone, PyStr(""), PyStr("Java"), PyList(<<>>),
                 PyList(<<"Java", " ">>), PyList(<<" ">>)},
     college_name |-> {PyNone, PyStr(""), PyStr("MIT"), PyList(<<>>),
                       PyList(<<"MIT">>)},
     degree |-> {PyNone, PyStr(""), PyStr("BSc"), PyList(<<>>),
                 PyList(<<"BSc">>)},
     designation |-> {PyNone, PyStr(""), PyStr("Engineer"), PyList(<<>>),
                      PyList(<<"Engineer", "Lead">>)},
     company_names |-> {PyNone, PyStr(""), PyStr("Acme"), PyList(<<>>),
                        PyList(<<"Acme">>)},
     total_experience |-> {PyNone, PyInt(0), PyInt(3)},
     no_of_pages |-> {PyNone, PyInt(2)}]

\* The library's data: no key, one key with each of its values, and all
\* keys holding None or a value.
ExternalData ==
    {<<>>}
    \cup UNION {{(key :> v) : v \in RawValues[key]} : key \in DOMAIN RawValues}
    \cup {[key \in DOMAIN RawValues |-> PyNone],
          [name |-> PyStr("Cy Day"), email |-> PyStr("cy@day.io"),
           mobile_number |-> PyStr("5550199999"),
           skills |-> PyList(<<"Java", " ">>),
           college_name |-> PyList(<<"MIT">>), degree |-> PyStr("BSc"),
           designation |-> PyList(<<"Engineer", "Lead">>),
           company_names |-> PyList(<<"Acme">>),
           total_experience |-> PyInt(3), no_of_pages |-> PyInt(2)]}

\* The outcome of the external parse: no file given, the library raising,
\* or the library's data.
ExternalOutcomes ==
    {[kind |-> "no_file", data |-> <<>>], [kind |-> "raised", data |-> <<>>]}
    \cup {[kind |-> "data", data |-> d] : d \in ExternalData}

\* Skill names: technical ones (some holding a technical skill as a part),
\* soft ones, and names of neither list.
TechNames == <<"Python", "javascript", "MySQL", "github", "docker">>
SoftNames == <<"leadership", "team leadership">>
OtherNames == <<"cooking", "Excel", "chess">>

\* n names taken from pool in turn.
Cycle(pool, n) == [i \in 1..n |-> pool[((i - 1) % Len(pool)) + 1]]

\* Parsed resumes whose skill list has t technical, s soft and o other
\* skills.
SkillListResumes ==
    {[skills |-> Cycle(OtherNames, o) \o Cycle(TechNames, t)
                 \o Cycle(SoftNames, s)] :
        t \in 0..MaxTech, s \in 0..MaxSoft, o \in 0..MaxOther}

\* The phrases a job description states its required experience with (one
\* for each pattern and way of writing it), and phrases no pattern matches.
RequirementYears == {2, 5, MaxYears - 3}

RequirementPhrases ==
    UNION {{ <<ToString(n), "years", "experience">>,
             <<ToString(n), "+", "yrs", "of", "exp">>,
             <<"at", "least", ToString(n), "years">>,
             <<"minimum", ToString(n), "yrs">>,
             <<ToString(n), "to", ToString(n + 3), "years">>,
             <<ToString(n + 3), "-", ToString(n), "years">>,
             <<ToString(n), "years">> } : n \in RequirementYears}
    \cup {<<"python">>}

RECURSIVE Concat(_)
Concat(phrases) ==
    IF phrases = <<>> THEN <<>> ELSE Head(phrases) \o Concat(Tail(phrases))

RequirementTexts ==
    {Concat(phrases) : phrases \in SeqsUpTo(RequirementPhrases, MaxRequirements)}

\* The words of the job descriptions that are categorized.
RoleWords ==
    {"Data", "scientists", "metadata", "analyst", "Developers", "web",
     "Product", "manager", "marketing", "machine", "learning", "engineer",
     "senior"}

RoleTexts == SeqsUpTo(RoleWords, MaxRoleWords)

\* The resumes recommendations are made for: those of the similarity score
\* and resumes with more years than the job descriptions ask for.
RecommendationResumes ==
    TextsOf(ResumePhrases \cup {<<"6", "years", "experience">>}, MaxPhrases)

\* The uploaded files of the application: unreadable ones, and readable
\* ones with the cosine of their text and the job description.
AppFiles ==
    {[given |-> TRUE, name |-> n, text |-> tc[1], cos |-> tc[2]] :
        n \in {"a.pdf", "b.pdf"},
        tc \in { <<<<>>, <<1, 3>>>>, <<<<"Python">>, <<1, 3>>>>,
                 <<<<"Python">>, <<7, 8>>>>, <<<<"the">>, <<1, 3>>>> }}

\* uploaded_file is None
NoFile == [given |-> FALSE, name |-> "", text |-> <<>>, cos |-> <<1, 3>>]

\* The text of the job description field: empty, or a description.
AppJobs == { <<>>, <<"python", "sql">>, <<"the">> }

\* The scores generate_feedback is called with: values under, at and over
\* each threshold of its rules, and dicts without the key job_match.
FeedbackScores ==
    LET with_job ==
            [completeness : {<<14, 25>>, <<7, 10>>, <<3, 4>>, <<4, 5>>},
             content_quality : {<<1, 2>>, <<3, 5>>},
             skills_relevance : {<<1, 2>>, <<3, 5>>, <<4, 5>>},
             experience : {<<2, 5>>, <<1, 2>>},
             job_match : {RZero, <<3, 10>>, <<3, 5>>}]
    IN  with_job
        \cup {[k \in DOMAIN s \ {"job_match"} |-> s[k]] : s \in with_job}

\* The parsed resumes generate_feedback is called with: each named field
\* present or missing, skill lists on both sides of 5 and of 20 entries.
FeedbackResumes ==
    {[name |-> n, email |-> c[1], phone |-> c[2],
      skills |-> Cycle(OtherNames, k), education |-> e,
      experience_years |-> y] :
        n \in {"", "Ann Lee"},
        c \in {<< <<>>, <<>> >>, << <<"ann@lee.org">>, <<>> >>,
               << <<>>, <<"5550100">> >>},
        k \in {0, 4, 5, 20, 21},
        e \in {<<>>, <<"BSc">>},
        y \in {0, 3}}

\* The skill lists extract_skills is given: a skill in two spellings, a
\* skill of two words, one ending in a non-word character, and repetitions.
SkillLists ==
    SeqsUpTo({"Python", "python", "sql", "machine learning", "c++"},
             MaxSkillList)

\* The texts it is given: those of the skill operations and the skill "c++".
SkillCallTexts == TextsOf(SkillPhrases \cup {<<"c++">>}, MaxPhrases)

\* The texts whose content quality is scored on its own: words in both
\* spellings, a number and a full stop, in every arrangement.
DiversityTexts == SeqsUpTo({"Python", "python", "SQL", "3", "."}, MaxTokens)

\* The entities a recognizer finds: of kinds that are kept and of kinds that
\* are not.
FoundEntities ==
    {"PERSON", "ORG", "NORP", "CARDINAL"} \X {"Ann Lee", "Acme"}

\* Documents of a batch scored with the shared vectorizer: <<name, text,
\* cosine of the text and the job>>.
VectorizerDocs ==
    { <<"a.pdf", <<"Python">>, <<1, 3>>>>,
      <<"b.pdf", <<"SQL", "leadership">>, <<7, 8>>>>,
      <<"c.pdf", <<"the">>, <<1, 3>>>>,
      <<"d.pdf", <<"python", "sql">>, <<1, 3>>>> }

\* The vectorizer as earlier calls of the matcher may have left it.
EarlierVectorizers ==
    {Unfitted, Fitted(Terms(<<"team", "skill">>))}

\* The arguments an operation is called with.
Inputs(operation) ==
    CASE operation = "calculate_similarity_score" ->
            [resume_text : ResumeTexts, job_description : JobTexts,
             cos : CosineValues]
      [] operation \in {"skills_matching_score", "analyze_skill_gaps"} ->
            [resume_text : SkillTexts, job_description : SkillTexts]
      [] operation = "experience_matching_score" ->
            [resume_text : YearsResumeTexts, job_description : YearsJobTexts]
      [] operation = "batch_resume_ranking" -> BatchInputs
      [] operation = "calculate_completeness_score" ->
            [parsed_resume : ParsedResumes]
      [] operation = "get_score_grade" -> [score : GradeScores]
      [] operation = "extract_resume_sections" -> [lines : ResumeLineTexts]
      [] operation = "app.single_resume_analysis" ->
            [file : AppFiles \cup {NoFile},
             parsed_resume : {MidResume, StrongResume}]
      [] operation = "app.resume_vs_job_analysis" ->
            [file : AppFiles \cup {NoFile}, job_description : AppJobs,
             entities : EntitySamples]
      [] operation = "app.batch_resume_ranking" ->
            [files : SeqsUpTo(AppFiles, MaxBatch), job_description : AppJobs]
      [] operation = "get_matching_recommendations" ->
            [resume_text : RecommendationResumes,
             job_description : JobTexts, entities : EntitySamples]
      [] operation = "categorize_job_role" -> [job_description : RoleTexts]
      [] operation = "extract_required_experience" ->
            [job_description : RequirementTexts]
      [] operation = "calculate_skills_relevance_score" ->
            [parsed_resume : SkillListResumes]
      [] operation = "parse_resume" ->
            [outcome : ExternalOutcomes, lines : ParseTexts,
             entities : EntitySamples]
      [] operation = "extract_skills" ->
            [text : SkillCallTexts, skill_list : SkillLists]
      [] operation = "calculate_content_quality_score" ->
            [resume_text : DiversityTexts]
      [] operation = "extract_entities" ->
            [nlp : BOOLEAN, ents : SeqsUpTo(FoundEntities, MaxEntities)]
      [] operation = "backend.preprocess_for_similarity" ->
            [text : ResumeTexts, tokenizer_ok : BOOLEAN]
      [] operation = "backend.calculate_similarity_score" ->
            [resume_text : ResumeTexts, job_description : JobTexts,
             cos : CosineValues, tokenizer_ok : BOOLEAN]
      [] operation = "backend.calculate_overall_score" ->
            [parsed_resume : {EmptyResume, MidResume},
             resume_text : OverallTexts, job_description : OverallJobs,
             cos : CosineValues, tokenizer_ok : BOOLEAN]
      [] operation = "vectorizer.batch_resume_ranking" ->
            [resumes_data : SeqsUpTo(VectorizerDocs, MaxBatch),
             job_description : BatchJobs]
      [] operation = "caller.resume_vs_job_analysis" ->
            [resume_text : ResumeTexts \ {<<>>},
             job_description : JobTexts \ {<<>>}, cos : CosineValues]
      [] operation = "caller.batch_resume_ranking" ->
            [resumes_data : SeqsUpTo(VectorizerDocs, MaxBatch) \ {<<>>},
             job_description : BatchJobs]
      [] operation = "caller.calculate_overall_score" ->
            [parsed_resume : {MidResume},
             resume_text : ResumeTexts \ {<<>>},
             job_description : {<<j>> : j \in JobTexts \ {<<>>}},
             cos : CosineValues]
      [] operation = "generate_feedback" ->
            [scores : FeedbackScores, parsed_resume : FeedbackResumes]
      [] operation = "calculate_overall_score" ->
            [parsed_resume : OverallResumes, resume_text : OverallTexts,
             job_description : OverallJobs, cos : OverallCosines]

Init ==
    /\ pc = "idle"
    /\ op = "none"
    /\ args = <<>>
    /\ ret = <<>>
    /\ aux = <<>>

Invoke(operation) ==
    /\ pc = "idle"
    /\ \E a \in Inputs(operation) : args' = a
    /\ op' = operation
    /\ pc' = "called"
    /\ UNCHANGED <<ret, aux>>

\* The caller takes the result; the engine keeps nothing of the call.
Return ==
    /\ pc = "done"
    /\ pc' = "idle"
    /\ op' = "none"
    /\ args' = <<>>
    /\ ret' = <<>>
    /\ aux' = <<>>

CalculateSimilarityScore ==
    /\ pc = "called" /\ op = "calculate_similarity_score"
    /\ \E run \in {calculate_similarity_score_run(
                        args.resume_text, args.job_description, args.cos)} :
            /\ ret' = run.result
            /\ aux' = [scores |-> run.scores, calls |-> run.calls]
    /\ pc' = "done"
    /\ UNCHANGED <<op, args>>

NextSimilarity ==
    \/ Invoke("calculate_similarity_score")
    \/ CalculateSimilarityScore
    \/ Return

SpecSimilarity == Init /\ [][NextSimilarity]_vars

SkillsMatchingScore ==
    /\ pc = "called" /\ op = "skills_matching_score"
    /\ ret' = skills_matching_score(args.resume_text, args.job_description)
    /\ pc' = "done"
    /\ UNCHANGED <<op, args, aux>>

AnalyzeSkillGaps ==
    /\ pc = "called" /\ op = "analyze_skill_gaps"
    /\ ret' = analyze_skill_gaps(args.resume_text, args.job_description)
    /\ pc' = "done"
    /\ UNCHANGED <<op, args, aux>>

NextSkills ==
    \/ Invoke("skills_matching_score")
    \/ SkillsMatchingScore
    \/ Invoke("analyze_skill_gaps")
    \/ AnalyzeSkillGaps
    \/ Return

SpecSkills == Init /\ [][NextSkills]_vars

ExperienceMatchingScore ==
    /\ pc = "called" /\ op = "experience_matching_score"
    /\ ret' = experience_matching_score(args.resume_text, args.job_description)
    /\ pc' = "done"
    /\ UNCHANGED <<op, args, aux>>

NextExperience ==
    \/ Invoke("experience_matching_score")
    \/ ExperienceMatchingScore
    \/ Return

SpecExperience == Init /\ [][NextExperience]_vars

\* aux keeps the list as it is right after the sort (line 266), where the
\* rank of an entry is still its position in the input.
BatchResumeRanking ==
    /\ pc = "called" /\ op = "batch_resume_ranking"
    /\ \E run \in {batch_resume_ranking_run(
                        args.resumes_data, args.job_description, args.cos)} :
            /\ ret' = run.rankings
            /\ aux' = run.sorted
    /\ pc' = "done"
    /\ UNCHANGED <<op, args>>

NextRanking ==
    \/ Invoke("batch_resume_ranking")
    \/ BatchResumeRanking
    \/ Return

SpecRanking == Init /\ [][NextRanking]_vars

CalculateCompletenessScore ==
    /\ pc = "called" /\ op = "calculate_completeness_score"
    /\ \E run \in {calculate_completeness_score_run(args.parsed_resume)} :
            /\ ret' = run.score
            /\ aux' = [required_sections |-> run.required_sections,
                       optional_sections |-> run.optional_sections]
    /\ pc' = "done"
    /\ UNCHANGED <<op, args>>

NextCompleteness ==
    \/ Invoke("calculate_completeness_score")
    \/ CalculateCompletenessScore
    \/ Return

SpecCompleteness == Init /\ [][NextCompleteness]_vars

GetScoreGrade ==
    /\ pc = "called" /\ op = "get_score_grade"
    /\ ret' = get_score_grade(args.score)
    /\ pc' = "done"
    /\ UNCHANGED <<op, args, aux>>

NextGrade ==
    \/ Invoke("get_score_grade")
    \/ GetScoreGrade
    \/ Return

SpecGrade == Init /\ [][NextGrade]_vars

CalculateOverallScore ==
    /\ pc = "called" /\ op = "calculate_overall_score"
    /\ \E run \in {calculate_overall_score_run(
                        args.parsed_resume, args.resume_text,
                        args.job_description, args.cos)} :
            /\ ret' = run.result
            /\ aux' = [scores |-> run.scores, overall_score |-> run.overall_score]
    /\ pc' = "done"
    /\ UNCHANGED <<op, args>>

NextOverall ==
    \/ Invoke("calculate_overall_score")
    \/ CalculateOverallScore
    \/ Return

SpecOverall == Init /\ [][NextOverall]_vars

\* extract_resume_sections runs line by line: aux holds the dict of
\* sections, the current section and the number of the next line.
ExtractSectionsBegin ==
    /\ pc = "called" /\ op = "extract_resume_sections"
    /\ aux' = [sections |-> SectionStart.sections,
               current_section |-> SectionStart.current_section,
               line |-> 1]
    /\ pc' = "loop"
    /\ UNCHANGED <<op, args, ret>>

ExtractSectionsLine ==
    /\ pc = "loop" /\ op = "extract_resume_sections"
    /\ aux.line <= Len(args.lines)
    /\ aux' = [SectionStep(aux, args.lines[aux.line]) EXCEPT !.line = @ + 1]
    /\ UNCHANGED <<pc, op, args, ret>>

ExtractSectionsEnd ==
    /\ pc = "loop" /\ op = "extract_resume_sections"
    /\ aux.line > Len(args.lines)
    /\ ret' = StrippedSections(aux.sections)
    /\ pc' = "done"
    /\ UNCHANGED <<op, args, aux>>

NextSections ==
    \/ Invoke("extract_resume_sections")
    \/ ExtractSectionsBegin
    \/ ExtractSectionsLine
    \/ ExtractSectionsEnd
    \/ Return

SpecSections == Init /\ [][NextSections]_vars

-----------------------------------------------------------------------------
(* parse_resume, step by step: the external parse, the manual parse merged *)
(* into it, the cleaning; then the completeness score the application      *)
(* takes of the parsed resume.                                             *)

ParseResumeExternal ==
    /\ pc = "called" /\ op = "parse_resume"
    /\ aux' = [parsed_data |-> ExternalParse(args.outcome)]
    /\ pc' = "external"
    /\ UNCHANGED <<op, args, ret>>

ParseResumeMerge ==
    /\ pc = "external" /\ op = "parse_resume"
    /\ \E manual_data \in {parse_resume_manual(args.lines, args.entities)} :
            aux' = [pyresparser_data |-> aux.parsed_data,
                    manual_data |-> manual_data,
                    parsed_data |-> Merge(aux.parsed_data, manual_data)]
    /\ pc' = "merged"
    /\ UNCHANGED <<op, args, ret>>

ParseResumeClean ==
    /\ pc = "merged" /\ op = "parse_resume"
    /\ ret' = clean_parsed_data(aux.parsed_data)
    /\ pc' = "done"
    /\ UNCHANGED <<op, args, aux>>

\* calculate_completeness_score(parsed_data), as calculate_overall_score
\* calls it first on the parser's result.
ScoreParsedResume ==
    /\ pc = "done" /\ op = "parse_resume"
    /\ aux' = IF CompletenessRaises(ret)
              THEN [raised |-> TRUE, completeness |-> <<>>]
              ELSE [raised |-> FALSE,
                    completeness |->
                        calculate_completeness_score_run(PlainResume(ret))]
    /\ pc' = "scored"
    /\ UNCHANGED <<op, args, ret>>

ReturnScored ==
    /\ pc = "scored"
    /\ pc' = "idle"
    /\ op' = "none"
    /\ args' = <<>>
    /\ ret' = <<>>
    /\ aux' = <<>>

NextParse ==
    \/ Invoke("parse_resume")
    \/ ParseResumeExternal
    \/ ParseResumeMerge
    \/ ParseResumeClean
    \/ ScoreParsedResume
    \/ Return
    \/ ReturnScored

SpecParse == Init /\ [][NextParse]_vars

-----------------------------------------------------------------------------
(* calculate_skills_relevance_score called on a parsed resume: aux holds   *)
(* the three counts.                                                       *)

CalculateSkillsRelevanceScore ==
    /\ pc = "called" /\ op = "calculate_skills_relevance_score"
    /\ \E skills \in {Get(args.parsed_resume, "skills", <<>>)} :
        /\ ret' = SkillsRelevanceOf(skills)
        /\ aux' = [total_skills |-> Len(skills),
                   tech_skills_count |->
                        Cardinality({i \in 1..Len(skills) :
                                        IsTechnicalSkill(skills[i])}),
                   soft_skills_count |->
                        Cardinality({i \in 1..Len(skills) :
                                        IsSoftSkill(skills[i])})]
    /\ pc' = "done"
    /\ UNCHANGED <<op, args>>

NextSkillsRelevance ==
    \/ Invoke("calculate_skills_relevance_score")
    \/ CalculateSkillsRelevanceScore
    \/ Return

SpecSkillsRelevance == Init /\ [][NextSkillsRelevance]_vars

-----------------------------------------------------------------------------
(* extract_required_experience called on a job description: aux holds the  *)
(* list of the collected numbers.                                          *)

ExtractRequiredExperience ==
    /\ pc = "called" /\ op = "extract_required_experience"
    /\ ret' = extract_required_experience(args.job_description)
    /\ aux' = [years |-> RequiredYearsCollected(args.job_description)]
    /\ pc' = "done"
    /\ UNCHANGED <<op, args>>

NextRequired ==
    \/ Invoke("extract_required_experience")
    \/ ExtractRequiredExperience
    \/ Return

SpecRequired == Init /\ [][NextRequired]_vars

-----------------------------------------------------------------------------
(* categorize_job_role called on a job description.                        *)

CategorizeJobRole ==
    /\ pc = "called" /\ op = "categorize_job_role"
    /\ ret' = categorize_job_role(args.job_description)
    /\ pc' = "done"
    /\ UNCHANGED <<op, args, aux>>

NextCategorize ==
    \/ Invoke("categorize_job_role")
    \/ CategorizeJobRole
    \/ Return

SpecCategorize == Init /\ [][NextCategorize]_vars

-----------------------------------------------------------------------------
(* get_matching_recommendations called on a resume and a job description:  *)
(* the order of the missing skills in their list is open.                  *)

GetMatchingRecommendations ==
    /\ pc = "called" /\ op = "get_matching_recommendations"
    /\ \E skill_analysis \in {analyze_skill_gaps(args.resume_text,
                                                args.job_description)} :
        /\ \E shown \in FirstOfSet(skill_analysis.missing_skills, 5) :
                ret' = get_matching_recommendations(
                            args.resume_text, args.job_description,
                            args.entities, shown)
        /\ aux' = [skill_analysis |-> skill_analysis]
    /\ pc' = "done"
    /\ UNCHANGED <<op, args>>

NextRecommendations ==
    \/ Invoke("get_matching_recommendations")
    \/ GetMatchingRecommendations
    \/ Return

SpecRecommendations == Init /\ [][NextRecommendations]_vars

-----------------------------------------------------------------------------
(* app.py: single_resume_analysis, resume_vs_job_analysis and              *)
(* batch_resume_ranking.  aux holds the extracted text(s), the calls made  *)
(* so far and the error shown; ret holds the results that are displayed.   *)

\* Lines 121-124: nothing happens without a file.
SingleExtractText ==
    /\ pc = "called" /\ op = "app.single_resume_analysis"
    /\ aux' = [resume_text |-> args.file.text, calls |-> <<>>,
               error |-> NoError]
    /\ pc' = IF args.file.given THEN "extracted" ELSE "done"
    /\ UNCHANGED <<op, args, ret>>

\* Lines 126-134
SingleAnalyze ==
    /\ pc = "extracted" /\ op = "app.single_resume_analysis"
    /\ IF NoText(aux.resume_text)
       THEN /\ aux' = [aux EXCEPT !.error =
                        "Could not extract text from the uploaded file."]
            /\ UNCHANGED ret
       ELSE /\ aux' = [aux EXCEPT !.calls =
                        <<Call("parse_resume", {1}),
                          Call("calculate_overall_score", {1})>>]
            /\ ret' = [score_result |->
                        calculate_overall_score(args.parsed_resume,
                                                aux.resume_text, <<>>, RZero)]
    /\ pc' = "done"
    /\ UNCHANGED <<op, args>>

\* Lines 254-258: nothing happens without a file or a job description.
VsJobExtractText ==
    /\ pc = "called" /\ op = "app.resume_vs_job_analysis"
    /\ aux' = [resume_text |-> args.file.text, calls |-> <<>>,
               error |-> NoError]
    /\ pc' = IF args.file.given /\ ~Blank(args.job_description)
             THEN "extracted" ELSE "done"
    /\ UNCHANGED <<op, args, ret>>

\* Lines 260-271
VsJobAnalyze ==
    /\ pc = "extracted" /\ op = "app.resume_vs_job_analysis"
    /\ IF NoText(aux.resume_text)
       THEN /\ aux' = [aux EXCEPT !.error =
                        "Could not extract text from the resume."]
            /\ UNCHANGED ret
       ELSE /\ aux' = [aux EXCEPT !.calls =
                        <<Call("calculate_similarity_score", {1}),
                          Call("analyze_skill_gaps", {1}),
                          Call("get_matching_recommendations", {1})>>]
            /\ \E skill_gaps \in {analyze_skill_gaps(aux.resume_text,
                                                     args.job_description)} :
               \E shown \in FirstOfSet(skill_gaps.missing_skills, 5) :
                ret' = [similarity_result |->
                            calculate_similarity_score(
                                aux.resume_text, args.job_description,
                                args.file.cos),
                        skill_gaps |-> skill_gaps,
                        recommendations |->
                            get_matching_recommendations(
                                aux.resume_text, args.job_description,
                                args.entities, shown)]
    /\ pc' = "done"
    /\ UNCHANGED <<op, args>>

\* Lines 354-361: nothing happens without a job description or files; the
\* files after the tenth are left out.  kept holds the places in
\* uploaded_files of the documents of resumes_data.
BatchBegin ==
    /\ pc = "called" /\ op = "app.batch_resume_ranking"
    /\ aux' = [uploaded_files |-> FirstN(args.files, MaxFiles),
               resumes_data |-> <<>>, kept |-> <<>>, next |-> 1,
               sorted |-> <<>>, calls |-> <<>>, error |-> NoError]
    /\ pc' = IF ~Blank(args.job_description) /\ args.files # <<>>
             THEN "extracting" ELSE "done"
    /\ UNCHANGED <<op, args, ret>>

\* Lines 364-367: one turn of the loop over the files.
BatchExtractText ==
    /\ pc = "extracting" /\ op = "app.batch_resume_ranking"
    /\ aux.next <= Len(aux.uploaded_files)
    /\ aux' = IF NoText(aux.uploaded_files[aux.next].text)
              THEN [aux EXCEPT !.next = @ + 1]
              ELSE [aux EXCEPT
                        !.next = @ + 1,
                        !.resumes_data =
                            Append(@, <<aux.uploaded_files[aux.next].name,
                                        aux.uploaded_files[aux.next].text>>),
                        !.kept = Append(@, aux.next)]
    /\ UNCHANGED <<pc, op, args, ret>>

\* Lines 369-374
BatchRank ==
    /\ pc = "extracting" /\ op = "app.batch_resume_ranking"
    /\ aux.next > Len(aux.uploaded_files)
    /\ IF aux.resumes_data = <<>>
       THEN /\ aux' = [aux EXCEPT !.error =
                "Could not extract text from any of the uploaded files."]
            /\ UNCHANGED ret
       ELSE \E run \in {batch_resume_ranking_run(
                            aux.resumes_data, args.job_description,
                            [k \in 1..Len(aux.kept) |->
                                aux.uploaded_files[aux.kept[k]].cos])} :
                /\ ret' = run.rankings
                /\ aux' = [aux EXCEPT
                            !.sorted = run.sorted,
                            !.calls = <<Call("batch_resume_ranking",
                                             Range(aux.kept))>>]
    /\ pc' = "done"
    /\ UNCHANGED <<op, args>>

NextApp ==
    \/ Invoke("app.single_resume_analysis")
    \/ Invoke("app.resume_vs_job_analysis")
    \/ Invoke("app.batch_resume_ranking")
    \/ SingleExtractText
    \/ SingleAnalyze
    \/ VsJobExtractText
    \/ VsJobAnalyze
    \/ BatchBegin
    \/ BatchExtractText
    \/ BatchRank
    \/ Return

SpecApp == Init /\ [][NextApp]_vars

-----------------------------------------------------------------------------
(* generate_feedback called with a dict of scores and a parsed resume.     *)

GenerateFeedback ==
    /\ pc = "called" /\ op = "generate_feedback"
    /\ ret' = generate_feedback(args.scores, args.parsed_resume)
    /\ pc' = "done"
    /\ UNCHANGED <<op, args, aux>>

NextFeedback ==
    \/ Invoke("generate_feedback")
    \/ GenerateFeedback
    \/ Return

SpecFeedback == Init /\ [][NextFeedback]_vars

-----------------------------------------------------------------------------
(* extract_skills called with a text and a skill list.  list(set(...))     *)
(* gives the found skills in an order Python leaves open: the result is    *)
(* any ordering of them.                                                   *)

Orderings(s) ==
    {[i \in 1..Len(s) |-> s[p[i]]] : p \in Permutations(1..Len(s))}

ExtractSkills ==
    /\ pc = "called" /\ op = "extract_skills"
    /\ ret' \in Orderings(extract_skills(args.text, args.skill_list))
    /\ pc' = "done"
    /\ UNCHANGED <<op, args, aux>>

NextExtractSkills ==
    \/ Invoke("extract_skills")
    \/ ExtractSkills
    \/ Return

SpecExtractSkills == Init /\ [][NextExtractSkills]_vars

-----------------------------------------------------------------------------
(* calculate_content_quality_score called with a text: aux holds the       *)
(* statistics it reads and its local diversity_score (nothing for the      *)
(* empty text, which returns before the statistics are taken).             *)

CalculateContentQualityScore ==
    /\ pc = "called" /\ op = "calculate_content_quality_score"
    /\ ret' = calculate_content_quality_score(args.resume_text)
    /\ \E stats \in {get_text_statistics(args.resume_text)} :
            aux' = IF args.resume_text = <<>> THEN <<>>
                   ELSE [stats |-> stats,
                         diversity_score |->
                            DiversityScore(Get(stats, "unique_words", 0),
                                           Get(stats, "word_count", 0))]
    /\ pc' = "done"
    /\ UNCHANGED <<op, args>>

NextContentQuality ==
    \/ Invoke("calculate_content_quality_score")
    \/ CalculateContentQualityScore
    \/ Return

SpecContentQuality == Init /\ [][NextContentQuality]_vars

-----------------------------------------------------------------------------
(* extract_entities called on a text processor with or without a model.    *)

ExtractEntities ==
    /\ pc = "called" /\ op = "extract_entities"
    /\ ret' = extract_entities(args.nlp, args.ents)
    /\ pc' = "done"
    /\ UNCHANGED <<op, args, aux>>

NextEntities ==
    \/ Invoke("extract_entities")
    \/ ExtractEntities
    \/ Return

SpecEntities == Init /\ [][NextEntities]_vars

-----------------------------------------------------------------------------
(* The preprocessing and the two scoring entry points called while the     *)
(* tokenizer of the NLP backend answers or fails: aux.raised tells whether *)
(* an exception left the call.                                             *)

BackendOperations ==
    {"backend.preprocess_for_similarity", "backend.calculate_similarity_score",
     "backend.calculate_overall_score"}

BackendPreprocess ==
    /\ pc = "called" /\ op = "backend.preprocess_for_similarity"
    /\ \E outcome \in {preprocess_for_similarity_outcome(
                            args.text, args.tokenizer_ok)} :
            /\ ret' = outcome.value
            /\ aux' = [raised |-> outcome.raised]
    /\ pc' = "done"
    /\ UNCHANGED <<op, args>>

BackendSimilarity ==
    /\ pc = "called" /\ op = "backend.calculate_similarity_score"
    /\ \E outcome \in {calculate_similarity_score_outcome(
                            args.resume_text, args.job_description, args.cos,
                            args.tokenizer_ok)} :
            /\ ret' = outcome.value
            /\ aux' = [raised |-> outcome.raised]
    /\ pc' = "done"
    /\ UNCHANGED <<op, args>>

BackendOverall ==
    /\ pc = "called" /\ op = "backend.calculate_overall_score"
    /\ \E outcome \in {calculate_overall_score_outcome(
                            args.parsed_resume, args.resume_text,
                            args.job_description, args.cos,
                            args.tokenizer_ok)} :
            /\ ret' = outcome.value
            /\ aux' = [raised |-> outcome.raised]
    /\ pc' = "done"
    /\ UNCHANGED <<op, args>>

NextBackend ==
    \/ Invoke("backend.preprocess_for_similarity")
    \/ Invoke("backend.calculate_similarity_score")
    \/ Invoke("backend.calculate_overall_score")
    \/ BackendPreprocess
    \/ BackendSimilarity
    \/ BackendOverall
    \/ Return

SpecBackend == Init /\ [][NextBackend]_vars

-----------------------------------------------------------------------------
(* batch_resume_ranking with the vectorizer the calls share: the loop      *)
(* scores one document at a step.  aux holds the vectorizer and the list   *)
(* `rankings' as far as it is built.                                       *)

VectorizerBatchBegin ==
    /\ pc = "called" /\ op = "vectorizer.batch_resume_ranking"
    /\ \E vectorizer \in EarlierVectorizers :
            aux' = [vectorizer |-> vectorizer, rankings |-> <<>>]
    /\ pc' = "scoring"
    /\ UNCHANGED <<op, args, ret>>

VectorizerBatchScore ==
    /\ pc = "scoring" /\ op = "vectorizer.batch_resume_ranking"
    /\ Len(aux.rankings) < Len(args.resumes_data)
    /\ \E i \in {Len(aux.rankings) + 1} :
       \E score_data \in {calculate_similarity_score_with(
                                aux.vectorizer, args.resumes_data[i][2],
                                args.job_description,
                                args.resumes_data[i][3])} :
            aux' = [vectorizer |-> score_data.vectorizer,
                    rankings |->
                        Append(aux.rankings,
                               RankingEntry(i, args.resumes_data[i][1],
                                            score_data.value))]
    /\ UNCHANGED <<pc, op, args, ret>>

VectorizerBatchRank ==
    /\ pc = "scoring" /\ op = "vectorizer.batch_resume_ranking"
    /\ Len(aux.rankings) = Len(args.resumes_data)
    /\ ret' = UpdateRanks(SortByOverallScore(aux.rankings))
    /\ pc' = "done"
    /\ UNCHANGED <<op, args, aux>>

NextVectorizer ==
    \/ Invoke("vectorizer.batch_resume_ranking")
    \/ VectorizerBatchBegin
    \/ VectorizerBatchScore
    \/ VectorizerBatchRank
    \/ Return

SpecVectorizer == Init /\ [][NextVectorizer]_vars

-----------------------------------------------------------------------------
(* The three callers of calculate_similarity_score, each from its call on  *)
(* to the end of what it does with the result: aux.raised tells whether an *)
(* exception ended it, aux.short_circuit whether a result it got was the   *)
(* short-circuit one.                                                      *)

CallerOperations ==
    {"caller.resume_vs_job_analysis", "caller.batch_resume_ranking",
     "caller.calculate_overall_score"}

IsShortCircuit(result) ==
    result.overall_score = 0 /\ DOMAIN result.method_scores = {}

CallerVsJob ==
    /\ pc = "called" /\ op = "caller.resume_vs_job_analysis"
    /\ \E shown \in {VsJobDisplay(calculate_similarity_score(
                        args.resume_text, args.job_description, args.cos))} :
            /\ ret' = shown.similarity_result
            /\ aux' = [raised |-> shown.raised,
                       short_circuit |-> IsShortCircuit(shown.similarity_result)]
    /\ pc' = "done"
    /\ UNCHANGED <<op, args>>

CallerBatch ==
    /\ pc = "called" /\ op = "caller.batch_resume_ranking"
    /\ \E shown \in {BatchDisplay(batch_resume_ranking(
                        [i \in 1..Len(args.resumes_data) |->
                            <<args.resumes_data[i][1], args.resumes_data[i][2]>>],
                        args.job_description,
                        [i \in 1..Len(args.resumes_data) |->
                            args.resumes_data[i][3]]))} :
            /\ ret' = shown.rankings
            /\ aux' = [raised |-> shown.raised,
                       short_circuit |->
                            \E i \in 1..Len(shown.rankings) :
                                IsShortCircuit(shown.rankings[i])]
    /\ pc' = "done"
    /\ UNCHANGED <<op, args>>

CallerOverall ==
    /\ pc = "called" /\ op = "caller.calculate_overall_score"
    /\ ret' = calculate_overall_score(args.parsed_resume, args.resume_text,
                                      args.job_description, args.cos)
    /\ aux' = [raised |-> FALSE,
               short_circuit |->
                    IsShortCircuit(calculate_similarity_score(
                        args.resume_text, args.job_description[1], args.cos))]
    /\ pc' = "done"
    /\ UNCHANGED <<op, args>>

NextCallers ==
    \/ Invoke("caller.resume_vs_job_analysis")
    \/ Invoke("caller.batch_resume_ranking")
    \/ Invoke("caller.calculate_overall_score")
    \/ CallerVsJob
    \/ CallerBatch
    \/ CallerOverall
    \/ Return

SpecCallers == Init /\ [][NextCallers]_vars

-----------------------------------------------------------------------------
(* Claims about calculate_similarity_score, checked under SpecSimilarity.  *)

MethodNames ==
    {"tfidf_cosine", "keyword_match", "skills_match", "experience_match"}

\* h hundredths is x rounded to two decimals: |h/100 - x| <= 1/200.
IsRounded2(h, x) ==
    /\ RLe(<<2 * h - 1, 200>>, x)
    /\ RLe(x, <<2 * h + 1, 200>>)

SimilarityCalled == pc = "done" /\ op = "calculate_similarity_score"

BothPreprocessedNonEmpty ==
    /\ preprocess_for_similarity(args.resume_text) # <<>>
    /\ preprocess_for_similarity(args.job_description) # <<>>

\* 100 x (0.4*tfidf_cosine + 0.2*keyword_match + 0.3*skills_match
\*        + 0.1*experience_match) of the method scores of the call.
WeightedSimilarityPct ==
    LET s == aux.scores IN
    RMul(RInt(100),
         RAdd(RAdd(RMul(<<4, 10>>, s.tfidf_cosine), RMul(<<2, 10>>, s.keyword_match)),
              RAdd(RMul(<<3, 10>>, s.skills_match), RMul(<<1, 10>>, s.experience_match))))

\* C1: for texts whose preprocessed forms are both non-empty the returned
\* overall_score is 100 x (0.4*tfidf_cosine + 0.2*keyword_match +
\* 0.3*skills_match + 0.1*experience_match) rounded to 2 decimals, and with
\* every method score in [0,1] the overall_score and every reported method
\* score lie in [0,100] (scores are kept in hundredths: 0..10000).
C1_WeightedOverallScore ==
    (SimilarityCalled /\ BothPreprocessedNonEmpty) =>
        /\ IsRounded2(ret.overall_score, WeightedSimilarityPct)
        /\ (\A k \in MethodNames :
                RLe(RZero, aux.scores[k]) /\ RLe(aux.scores[k], ROne)) =>
            /\ ret.overall_score \in 0..10000
            /\ \A k \in MethodNames : ret.method_scores[k] \in 0..10000

\* A call in which all four methods score above 0, the weighted sum is no
\* whole number of hundredths, and the overall score is strictly inside.
C1_Witness ==
    /\ SimilarityCalled /\ BothPreprocessedNonEmpty
    /\ \A k \in MethodNames : aux.scores[k] # RZero
    /\ RMul(RInt(100), WeightedSimilarityPct)[2] # 1
    /\ ret.overall_score \in 1..9999

\* C2: if a preprocessed text is empty the result is overall_score 0 with
\* empty method_scores and no scoring method was run; otherwise the
\* method_scores have exactly the four method names as keys.
C2_ShortCircuit ==
    SimilarityCalled =>
        IF BothPreprocessedNonEmpty
        THEN DOMAIN ret.method_scores = MethodNames
        ELSE /\ ret.overall_score = 0
             /\ DOMAIN ret.method_scores = {}
             /\ aux.calls = <<>>

\* A resume text that is not empty but preprocesses to nothing, against a
\* job description that preprocesses to something.
C2_Witness ==
    /\ SimilarityCalled
    /\ args.resume_text # <<>>
    /\ preprocess_for_similarity(args.resume_text) = <<>>
    /\ preprocess_for_similarity(args.job_description) # <<>>
    /\ ret.method_scores = <<>>

-----------------------------------------------------------------------------
(* Claims about batch_resume_ranking, checked under SpecRanking.           *)

RankingCalled == pc = "done" /\ op = "batch_resume_ranking"

\* The position in the input of the document at place i of the output.
InputPosition(i) == aux[i].rank

\* C4: the entries come back in non-increasing order of overall_score, and
\* two documents of equal overall_score keep the relative order they had
\* in the input.
C4_SortedDescendingStable ==
    RankingCalled =>
        /\ Len(aux) = Len(ret)
        /\ \A i \in 1..Len(ret) :
            /\ InputPosition(i) \in 1..Len(args.resumes_data)
            /\ ret[i].name = args.resumes_data[InputPosition(i)][1]
            /\ ret[i].overall_score = aux[i].overall_score
        /\ \A i, j \in 1..Len(ret) :
            i < j =>
                /\ ret[i].overall_score >= ret[j].overall_score
                /\ ret[i].overall_score = ret[j].overall_score =>
                        InputPosition(i) < InputPosition(j)

\* A batch of three in which the first and the last document tie and the
\* second one scores higher than both.
C4_Witness ==
    /\ RankingCalled
    /\ Len(ret) = 3
    /\ ret[2].overall_score = ret[3].overall_score
    /\ ret[1].overall_score > ret[2].overall_score
    /\ InputPosition(1) = 2 /\ InputPosition(2) = 1 /\ InputPosition(3) = 3

\* C5: N input documents give exactly N entries, one for each input
\* document, and the k-th entry has rank k (so equal scores get distinct
\* consecutive ranks); no documents give the empty sequence.
C5_DenseRanks ==
    RankingCalled =>
        /\ Len(ret) = Len(args.resumes_data)
        /\ {InputPosition(i) : i \in 1..Len(ret)} = 1..Len(args.resumes_data)
        /\ \A k \in 1..Len(ret) :
            /\ ret[k].rank = k
            /\ ret[k].name = args.resumes_data[InputPosition(k)][1]
        /\ args.resumes_data = <<>> => ret = <<>>

\* A batch in which two documents tie and the sort moved a document up.
C5_Witness ==
    /\ RankingCalled
    /\ Len(ret) = 3
    /\ ret[1].overall_score = ret[2].overall_score
    /\ ret[1].rank = 1 /\ ret[2].rank = 2 /\ ret[3].rank = 3
    /\ InputPosition(1) = 2

-----------------------------------------------------------------------------
(* Claims about the skill operations, checked under SpecSkills.            *)

\* The sets the claims call R and J.
ResumeSkillSet == LowerSet(extract_skills(args.resume_text, DefaultSkillList))
JobSkillSet == LowerSet(extract_skills(args.job_description, DefaultSkillList))

SkillsScoreCalled == pc = "done" /\ op = "skills_matching_score"

\* C6: the score is 0.4 * |R /\ J| / |R \/ J| + 0.6 * |R /\ J| / |J| when J
\* is not empty and 0 when it is; it lies in [0,1] and is 1 exactly when
\* R = J and J is not empty.
C6_SkillsMatchingScore ==
    SkillsScoreCalled =>
        LET R == ResumeSkillSet
            J == JobSkillSet
            i == Cardinality(R \cap J)
            u == Cardinality(R \cup J)
            j == Cardinality(J)
        IN  /\ J = {} => ret = RZero
            /\ J # {} =>
                    \* ret = 4i/(10u) + 6i/(10j), cleared of fractions
                    ret[1] * (10 * u * j) = ret[2] * (4 * i * j + 6 * i * u)
            /\ RLe(RZero, ret) /\ RLe(ret, ROne)
            /\ (ret = ROne) <=> (R = J /\ J # {})

\* A resume that has one of the two skills of the job and one more.
C6_Witness ==
    /\ SkillsScoreCalled
    /\ Cardinality(JobSkillSet) = 2
    /\ Cardinality(ResumeSkillSet \cap JobSkillSet) = 1
    /\ Cardinality(ResumeSkillSet \ JobSkillSet) = 1
    /\ RLt(RZero, ret) /\ RLt(ret, ROne)

SkillGapsCalled == pc = "done" /\ op = "analyze_skill_gaps"

\* C8: matching = R /\ J, missing = J - R, additional = R - J, so that
\* matching \/ missing = J, matching \/ additional = R, the three sets are
\* pairwise disjoint, and skill_match_percentage = 100 * |matching| / |J|
\* (0 when J is empty), within [0,100].
C8_SkillGaps ==
    SkillGapsCalled =>
        LET R == ResumeSkillSet
            J == JobSkillSet
            pct == ret.skill_match_percentage
        IN  /\ ret.matching_skills = R \cap J
            /\ ret.missing_skills = J \ R
            /\ ret.additional_skills = R \ J
            /\ ret.matching_skills \cup ret.missing_skills = J
            /\ ret.matching_skills \cup ret.additional_skills = R
            /\ ret.matching_skills \cap ret.missing_skills = {}
            /\ ret.matching_skills \cap ret.additional_skills = {}
            /\ ret.missing_skills \cap ret.additional_skills = {}
            /\ J = {} => pct = RZero
            /\ J # {} => pct[1] * Cardinality(J) =
                            pct[2] * 100 * Cardinality(ret.matching_skills)
            /\ RLe(RZero, pct) /\ RLe(pct, RInt(100))

\* All three sets are non-empty.
C8_Witness ==
    /\ SkillGapsCalled
    /\ ret.matching_skills # {}
    /\ ret.missing_skills # {}
    /\ ret.additional_skills # {}

-----------------------------------------------------------------------------
(* Claims about experience_matching_score, checked under SpecExperience.   *)

ExperienceScoreCalled == pc = "done" /\ op = "experience_matching_score"

\* The years the claim calls E_r and E_j.
ResumeYears == extract_experience_years(args.resume_text)
RequiredYears == extract_required_experience(args.job_description)

\* C7: the score is 1.0 if E_j = 0; otherwise 1.0 if E_r >= E_j, 0.8 if
\* E_r >= 0.7 * E_j, 0.6 if E_r >= 0.5 * E_j, and E_r / E_j, which is below
\* 0.5, in the remaining case; E_r = 3, E_j = 5 gives 0.6.
C7_ExperienceTiers ==
    ExperienceScoreCalled =>
        LET Er == ResumeYears
            Ej == RequiredYears
        IN  /\ Er >= 0 /\ Ej >= 0
            /\ Ej = 0 => ret = <<1, 1>>
            /\ (Ej # 0 /\ Er >= Ej) => ret = <<1, 1>>
            /\ (Ej # 0 /\ Er < Ej /\ 10 * Er >= 7 * Ej) => ret = <<4, 5>>
            /\ (Ej # 0 /\ 10 * Er < 7 * Ej /\ 2 * Er >= Ej) => ret = <<3, 5>>
            /\ (Ej # 0 /\ 2 * Er < Ej) =>
                    /\ ret[1] * Ej = ret[2] * Er
                    /\ 2 * ret[1] < ret[2]
            /\ (Er = 3 /\ Ej = 5) => ret = <<3, 5>>

\* A resume with exactly half of the required years: the lowest tier at its
\* boundary.
C7_Witness ==
    /\ ExperienceScoreCalled
    /\ RequiredYears = 10 /\ ResumeYears = 5
    /\ ret = <<3, 5>>

GradeCalled == pc = "done" /\ op = "get_score_grade"

\* The grades from the lowest to the highest, each with its lower bound.
GradeTiers ==
    << <<"D", 0>>, <<"C-", 50>>, <<"C", 55>>, <<"C+", 60>>, <<"B-", 65>>,
       <<"B", 70>>, <<"B+", 75>>, <<"A-", 80>>, <<"A", 85>>, <<"A+", 90>> >>

GradeRank(grade) == CHOOSE i \in 1..Len(GradeTiers) : GradeTiers[i][1] = grade

\* C9: get_score_grade gives every score in [0,100] a grade, the grade of
\* the highest tier whose lower bound the score reaches (the bound itself
\* included: 90.0 is A+, 89.999 is A, 50.0 is C-, 49.999 is D), and a lower
\* score never gets a higher grade.
C9_GradeTiers ==
    GradeCalled =>
        /\ \E i \in 1..Len(GradeTiers) : ret = GradeTiers[i][1]
        /\ \A i \in 1..Len(GradeTiers) :
                ret = GradeTiers[i][1] <=>
                    /\ RLe(RInt(GradeTiers[i][2]), args.score)
                    /\ \A j \in (i + 1)..Len(GradeTiers) :
                            RLt(args.score, RInt(GradeTiers[j][2]))
        /\ \A lower_score \in GradeScores :
                RLe(lower_score, args.score) =>
                    GradeRank(get_score_grade(lower_score)) <= GradeRank(ret)
        /\ args.score = Rat(90000, 1000) => ret = "A+"
        /\ args.score = Rat(89999, 1000) => ret = "A"
        /\ args.score = Rat(50000, 1000) => ret = "C-"
        /\ args.score = Rat(49999, 1000) => ret = "D"

\* A score exactly on the highest boundary has been graded.
C9_Witness == GradeCalled /\ args.score = RInt(90) /\ ret = "A+"

CompletenessCalled == pc = "done" /\ op = "calculate_completeness_score"

\* The number of the five required facts that hold of the parsed resume.
RequiredHeld ==
    LET r == args.parsed_resume
        One(b) == IF b THEN 1 ELSE 0
    IN  One(r.name # "")
        + One(Len(r.email) >= 1 \/ Len(r.phone) >= 1)
        + One(Len(r.skills) >= 1)
        + One(Len(r.education) >= 1)
        + One(r.experience_years > 0 \/ Len(r.companies) >= 1)

\* The number of the three optional booleans that are true.
OptionalHeld ==
    Cardinality({k \in DOMAIN aux.optional_sections : aux.optional_sections[k]})

\* C10: calculate_completeness_score returns 0.7 * required / 5 +
\* 0.3 * optional / 3, where required counts: a name, an email or a phone,
\* a skill, an education entry, experience_years > 0 or a company; and the
\* result lies in [0,1].
C10_CompletenessScore ==
    CompletenessCalled =>
        /\ DOMAIN aux.optional_sections = {"projects", "certifications", "summary"}
        /\ ret[1] * 150 = ret[2] * (21 * RequiredHeld + 15 * OptionalHeld)
        /\ RLe(RZero, ret) /\ RLe(ret, ROne)

\* A resume with a phone but no email, a company but no years, and one
\* optional section has been scored: 0.7 * 2/5 + 0.3 * 1/3.
C10_Witness ==
    /\ CompletenessCalled
    /\ args.parsed_resume.email = <<>> /\ args.parsed_resume.phone # <<>>
    /\ args.parsed_resume.experience_years = 0
    /\ args.parsed_resume.companies # <<>>
    /\ RequiredHeld = 2 /\ OptionalHeld = 1
    /\ ret = <<19, 50>>

OverallCalled == pc = "done" /\ op = "calculate_overall_score"

\* 100 x (0.30*completeness + 0.25*content_quality + 0.20*skills_relevance
\*        + 0.15*experience + 0.10*job_match) of the category scores of
\* the call.
WeightedOverallPct ==
    LET s == aux.scores IN
    RMul(RInt(100),
         RAdd(RAdd(RAdd(RMul(<<30, 100>>, s.completeness),
                        RMul(<<25, 100>>, s.content_quality)),
                   RAdd(RMul(<<20, 100>>, s.skills_relevance),
                        RMul(<<15, 100>>, s.experience))),
              RMul(<<10, 100>>, s.job_match)))

\* C3: calculate_overall_score returns 100 x (0.30*completeness +
\* 0.25*content_quality + 0.20*skills_relevance + 0.15*experience +
\* 0.10*job_match) rounded to 2 decimals, of the scores of the four category
\* functions and of the job match; with no job description job_match is 0
\* and the overall_score is at most 90; it always lies in [0,100]
\* (hundredths: 0..10000).
C3_OverallScore ==
    OverallCalled =>
        /\ aux.scores.completeness = calculate_completeness_score(args.parsed_resume)
        /\ aux.scores.content_quality = calculate_content_quality_score(args.resume_text)
        /\ aux.scores.skills_relevance = calculate_skills_relevance_score(args.parsed_resume)
        /\ aux.scores.experience = calculate_experience_score(args.parsed_resume)
        /\ IsRounded2(ret.overall_score, WeightedOverallPct)
        /\ args.job_description = <<>> =>
                /\ aux.scores.job_match = RZero
                /\ ret.overall_score <= 9000
        /\ ret.overall_score \in 0..10000

\* A resume that is full marks in the four categories has been scored with
\* no job description: the overall score is 90.00, ten points short.
C3_Witness ==
    /\ OverallCalled
    /\ args.job_description = <<>>
    /\ \A k \in {"completeness", "content_quality", "skills_relevance",
                 "experience"} : aux.scores[k] = ROne
    /\ ret.overall_score = 9000

-----------------------------------------------------------------------------
(* Claims about extract_resume_sections, checked under SpecSections.       *)

\* A turn of the loop of extract_resume_sections is being taken.
SectionLineTaken ==
    /\ pc = "loop" /\ op = "extract_resume_sections"
    /\ aux.line <= Len(args.lines)
    /\ aux'.line = aux.line + 1

\* C13: in every turn of the loop, a non-blank line that matches a header
\* pattern makes a section it matches the current one and adds text to no
\* section; while no section is current no line adds text to any section;
\* and once a section is current, one stays current.
C13_HeaderTransitions ==
    [][SectionLineTaken =>
        LET line == args.lines[aux.line] IN
        /\ (line # <<>> /\ MatchingSections(line) # {}) =>
                /\ aux'.current_section \in MatchingSections(line)
                /\ aux'.sections = aux.sections
        /\ aux.current_section = "None" => aux'.sections = aux.sections
        /\ aux.current_section # "None" => aux'.current_section # "None"
      ]_vars

\* Three lines in: a header, a line of content that went to its section, and
\* the header of another section, which is now current with no text.
C13_Witness ==
    /\ pc = "loop" /\ op = "extract_resume_sections" /\ aux.line = 4
    /\ args.lines[1] = <<"Summary">> /\ args.lines[3] = <<"PROJECTS">>
    /\ aux.sections["summary"] = args.lines[2] \o <<" ">>
    /\ args.lines[2] # <<>>
    /\ aux.current_section = "projects"
    /\ aux.sections["projects"] = <<>>

-----------------------------------------------------------------------------
(* Claims about parse_resume, checked under SpecParse.                     *)

\* The resume has a section x: one of its lines is a header of x.
SectionFound(lines, x) ==
    \E i \in 1..Len(lines) :
        lines[i] # <<>> /\ MatchingSections(lines[i]) # {}
        /\ FirstMatchingSection(lines[i]) = x

ParsedScored == pc = "scored" /\ op = "parse_resume" /\ ~aux.raised

\* C11: for a resume produced by parse_resume each optional completeness
\* boolean is true only when the text has that section (projects;
\* certifications; summary or objective), and a resume with none of these
\* sections gets an optional part of 0.
C11_OptionalOnlyWhenFound ==
    ParsedScored =>
        LET optional_sections == aux.completeness.optional_sections
        IN  /\ optional_sections.projects
                => SectionFound(args.lines, "projects")
            /\ optional_sections.certifications
                => SectionFound(args.lines, "certifications")
            /\ optional_sections.summary
                => \/ SectionFound(args.lines, "summary")
                   \/ SectionFound(args.lines, "objective")
            /\ (\A x \in {"projects", "certifications", "summary",
                          "objective"} : ~SectionFound(args.lines, x))
                => CountTrue(optional_sections) = 0

-----------------------------------------------------------------------------
(* Claims about calculate_skills_relevance_score, checked under            *)
(* SpecSkillsRelevance.                                                    *)

SkillsRelevanceCalled ==
    pc = "done" /\ op = "calculate_skills_relevance_score"

\* The skills of the list that match the technical list, and those that
\* match the soft list only.
TechnicalOf(skills) == {i \in 1..Len(skills) : IsTechnicalSkill(skills[i])}
SoftOf(skills) == {i \in 1..Len(skills) : IsSoftSkill(skills[i])}

\* The three tiers, in tenths.
QuantityTenths(n) ==
    IF 8 <= n /\ n <= 15 THEN 10
    ELSE IF (5 <= n /\ n <= 7) \/ (16 <= n /\ n <= 20) THEN 8
    ELSE IF (3 <= n /\ n <= 4) \/ (21 <= n /\ n <= 25) THEN 6
    ELSE 4

TechTenths(t) ==
    IF t >= 5 THEN 10 ELSE IF t >= 3 THEN 8 ELSE IF t >= 1 THEN 6 ELSE 2

BalanceTenths(t, s) ==
    IF t > 0 /\ s > 0 THEN 10
    ELSE IF (t > 0) # (s > 0) THEN 7
    ELSE 3

\* The average of the three sub-scores of a skill list.
TierAverage(skills) ==
    Rat(QuantityTenths(Len(skills))
        + TechTenths(Cardinality(TechnicalOf(skills)))
        + BalanceTenths(Cardinality(TechnicalOf(skills)),
                        Cardinality(SoftOf(skills))), 30)

\* C12 as stated: for every skill list, the empty one included, the score
\* is the average of the quantity tier, the technical-count tier and the
\* balance score.
C12_AverageForEveryList ==
    SkillsRelevanceCalled => ret = TierAverage(args.parsed_resume.skills)

\* C12 amended: for every non-empty skill list the score is the average of
\* the quantity tier, the technical-count tier and the balance score, a
\* skill of neither list counting in the total only; the empty list scores
\* 0.
C12_AverageForNonEmptyList ==
    SkillsRelevanceCalled =>
        /\ args.parsed_resume.skills # <<>>
            => ret = TierAverage(args.parsed_resume.skills)
        /\ args.parsed_resume.skills = <<>> => ret = RZero
        /\ aux.total_skills = Len(args.parsed_resume.skills)
        /\ aux.tech_skills_count + aux.soft_skills_count <= aux.total_skills

\* A list with one technical, one soft and two other skills has been
\* scored (0.6 + 0.6 + 1.0) / 3.
C12_Witness ==
    /\ SkillsRelevanceCalled
    /\ aux.total_skills = 4
    /\ aux.tech_skills_count = 1
    /\ aux.soft_skills_count = 1
    /\ ret = <<11, 15>>

ResumeMerged == pc = "merged" /\ op = "parse_resume"

\* A value that is there, truthy and not empty.
TruthyNonEmpty(v) ==
    v \notin {PyNone, PyStr(""), PyList(<<>>), PyInt(0), PyDict(<<>>)}

\* C14: in the merge of parse_resume every field of the fallback (manual)
\* parse takes the primary's (external) value if the primary has the field
\* with a truthy, non-empty value and the fallback's value otherwise, and
\* the fields of the primary alone are kept unchanged.
C14_MergePrimaryWins ==
    ResumeMerged =>
        /\ DOMAIN aux.parsed_data =
                DOMAIN aux.pyresparser_data \cup DOMAIN aux.manual_data
        /\ \A key \in DOMAIN aux.manual_data :
                aux.parsed_data[key] =
                    IF /\ key \in DOMAIN aux.pyresparser_data
                       /\ TruthyNonEmpty(aux.pyresparser_data[key])
                    THEN aux.pyresparser_data[key]
                    ELSE aux.manual_data[key]
        /\ \A key \in DOMAIN aux.pyresparser_data \ DOMAIN aux.manual_data :
                aux.parsed_data[key] = aux.pyresparser_data[key]

\* A merge where the primary's name won over another name of the fallback,
\* the primary's empty skills gave way to the fallback's, and a field of the
\* primary alone was kept.
C14_Witness ==
    /\ ResumeMerged
    /\ aux.pyresparser_data # <<>>
    /\ aux.pyresparser_data.name = PyStr("Cy Day")
    /\ aux.manual_data.name = PyStr("Ann Lee")
    /\ aux.parsed_data.name = PyStr("Cy Day")
    /\ aux.pyresparser_data.skills = PyList(<<>>)
    /\ aux.manual_data.skills # PyList(<<>>)
    /\ aux.parsed_data.skills = aux.manual_data.skills
    /\ aux.parsed_data.degree = aux.pyresparser_data.degree

ResumeParsed == pc \in {"done", "scored"} /\ op = "parse_resume"

SequenceFields ==
    {"email", "phone", "skills", "education", "companies", "designations",
     "degree"}

\* C15: for every external parse result and every text the resume returned
\* by parse_resume has email, phone, skills, education, companies,
\* designations and degree each as a sequence, never None or absent, and
\* the scoring engine can take their length.
C15_SequenceFieldsNonNull ==
    /\ ResumeParsed =>
            \A key \in SequenceFields :
                key \in DOMAIN ret /\ ret[key].tag = "list"
    /\ (pc = "scored" /\ op = "parse_resume") => ~aux.raised

-----------------------------------------------------------------------------
(* Claims about extract_required_experience, checked under SpecRequired.   *)

RequiredCalled == pc = "done" /\ op = "extract_required_experience"

\* The matches of the four patterns in a lower-case text: <<pattern, place
\* of the first number>>.
PatternMatches(t) ==
    {<<1, j>> : j \in {i \in 1..Len(t) : JobPattern1(t, i)}}
    \cup {<<2, j>> : j \in {i \in 1..Len(t) : JobPattern2(t, i)}}
    \cup {<<3, j>> : j \in {i \in 1..Len(t) : JobPattern3(t, i)}}
    \cup {<<4, j>> : j \in {i \in 1..Len(t) : JobPattern4(t, i)}}

-----------------------------------------------------------------------------
(* Claims about categorize_job_role, checked under SpecCategorize.         *)

CategorizeCalled == pc = "done" /\ op = "categorize_job_role"

\* The places in the category table of the categories with a keyword that
\* occurs in the text, whatever the case.
OccurringCategories(text) ==
    {i \in 1..Len(JOB_CATEGORIES) :
        \E k \in 1..Len(JOB_CATEGORIES[i].keywords) :
            RoleKeywordIn(JOB_CATEGORIES[i].keywords[k], LowerText(text))}

\* C18: categorize_job_role returns the first category of the table, in its
\* fixed order, with a keyword occurring in the job text as a substring
\* whatever the case, and 'general' exactly when no keyword of any category
\* occurs.
C18_FirstMatchingCategory ==
    CategorizeCalled =>
        LET occurring == OccurringCategories(args.job_description)
        IN  /\ ret = "general" <=> occurring = {}
            /\ occurring # {} =>
                \E i \in occurring :
                    /\ ret = JOB_CATEGORIES[i].category
                    /\ \A j \in occurring : i <= j

\* "Developers Data analyst" holds keywords of software_development and of
\* data_science: the category that comes first in the table is returned.
C18_Witness ==
    /\ CategorizeCalled
    /\ args.job_description = <<"Developers", "Data", "analyst">>
    /\ OccurringCategories(args.job_description) = {1, 2}
    /\ ret = "data_science"

-----------------------------------------------------------------------------
(* Claims about get_matching_recommendations, checked under                *)
(* SpecRecommendations.                                                    *)

RecommendationsCalled ==
    pc = "done" /\ op = "get_matching_recommendations"

\* The five conditions, from the arguments of the call.
RecommendationConditions ==
    LET resume_skills ==
            LowerSet(extract_skills(args.resume_text, DefaultSkillList))
        job_skills ==
            LowerSet(extract_skills(args.job_description, DefaultSkillList))
        top10 == extract_important_keywords(args.job_description, 10)
    IN  << job_skills \ resume_skills # {},
           extract_required_experience(args.job_description)
                > extract_experience_years(args.resume_text),
           \E i \in 1..Len(top10) :
                ~KeywordIn(top10[i], LowerText(args.resume_text)),
           "ORG" \notin DOMAIN args.entities \/ args.entities["ORG"] = <<>>,
           job_skills = {}
           \/ 2 * Cardinality(resume_skills \cap job_skills)
                < Cardinality(job_skills) >>

RecommendationOrder ==
    <<"Add missing skills", "Experience Gap", "Include key terms",
      "Add company names", "Improve skill relevance">>

\* C19: get_matching_recommendations tests its five conditions each on its
\* own (missing skills; required experience above the resume's; a top-10 job
\* keyword absent from the resume; no ORG entity; skill match below 50) and
\* emits the message of a condition exactly when it holds, zero to five
\* messages, always in that order.
C19_IndependentRulesInOrder ==
    RecommendationsCalled =>
        LET holding == SelectSeq([i \in 1..5 |-> i],
                                 LAMBDA i : RecommendationConditions[i])
        IN  /\ Len(ret) = Len(holding)
            /\ \A k \in 1..Len(ret) :
                    ret[k].heading = RecommendationOrder[holding[k]]
            /\ Len(ret) \in 0..5

\* Skills are missing while half of the job's skills match, a key term is
\* absent and no company was found: the first, third and fourth message
\* and no other.
C19_Witness ==
    /\ RecommendationsCalled
    /\ Len(ret) = 3
    /\ ret[1].heading = "Add missing skills"
    /\ ret[2].heading = "Include key terms"
    /\ ret[3].heading = "Add company names"
    /\ aux.skill_analysis.skill_match_percentage = RInt(50)

-----------------------------------------------------------------------------
(* Claims about the analysis modes of app.py, checked under SpecApp.       *)

AppModes ==
    {"app.single_resume_analysis", "app.resume_vs_job_analysis",
     "app.batch_resume_ranking"}

AppRunning == op \in AppModes /\ pc # "called"

\* The text the extractor returns for document i of the call.
DocumentText(i) ==
    IF op = "app.batch_resume_ranking" THEN args.files[i].text
    ELSE args.file.text

\* The places in the uploaded files of the documents of the ranking.
RankedDocuments ==
    {aux.kept[aux.sorted[k].rank] : k \in 1..Len(aux.sorted)}

\* C16: in every analysis mode no parsing, scoring or similarity function
\* is invoked on a document for which the extractor returns empty text and
\* no score is produced for it; the single and the resume-vs-job mode
\* report an error, and in batch mode the document is not in the ranking.
C16_EmptyTextNotAnalysed ==
    AppRunning =>
        /\ \A k \in 1..Len(aux.calls) :
                \A i \in aux.calls[k].docs : DocumentText(i) # <<>>
        /\ ( /\ pc = "done"
             /\ op = "app.single_resume_analysis"
             /\ args.file.given /\ args.file.text = <<>> )
            => aux.calls = <<>> /\ ret = <<>> /\ aux.error # NoError
        /\ ( /\ pc = "done"
             /\ op = "app.resume_vs_job_analysis"
             /\ args.file.given /\ args.job_description # <<>>
             /\ args.file.text = <<>> )
            => aux.calls = <<>> /\ ret = <<>> /\ aux.error # NoError
        /\ (pc = "done" /\ op = "app.batch_resume_ranking")
            => /\ \A i \in 1..Len(args.files) :
                    args.files[i].text = <<>> => i \notin RankedDocuments
               /\ Len(ret) = Cardinality(RankedDocuments)
               /\ \A k \in 1..Len(aux.sorted) :
                    aux.sorted[k].name
                        = args.files[aux.kept[aux.sorted[k].rank]].name

\* A batch of an unreadable a.pdf and a readable b.pdf has been ranked:
\* the ranking holds b.pdf alone and no error was shown.
C16_Witness ==
    /\ pc = "done" /\ op = "app.batch_resume_ranking"
    /\ Len(args.files) = 2
    /\ args.files[1].name = "a.pdf" /\ args.files[1].text = <<>>
    /\ args.files[2].name = "b.pdf" /\ args.files[2].text # <<>>
    /\ Len(ret) = 1 /\ ret[1].name = "b.pdf" /\ ret[1].rank = 1
    /\ aux.calls = <<Call("batch_resume_ranking", {2})>>
    /\ aux.error = NoError

-----------------------------------------------------------------------------
(* Claims about generate_feedback, checked under SpecFeedback.             *)

FeedbackCalled == pc = "done" /\ op = "generate_feedback"

\* The headings of the messages in the order the rules append them.
HeadingOrder ==
    <<"Missing Information", "Improve Content", "Add More Skills",
      "Optimize Skills", "Add Experience", "Enhance Experience",
      "Improve Job Match", "Complete Profile", "Strong Skills Profile">>

HeadingPosition(heading) ==
    CHOOSE i \in 1..Len(HeadingOrder) : HeadingOrder[i] = heading

\* The returned list holds a message of the heading.
Says(heading) == \E i \in 1..Len(ret) : ret[i][1] = heading

\* The fields the completeness message may name that the resume lacks.
LackedFields(parsed_resume) ==
    {f \in {"name", "contact information", "skills section",
            "education details"} :
        \/ f = "name" /\ parsed_resume.name = ""
        \/ f = "contact information" /\ parsed_resume.email = <<>>
                                     /\ parsed_resume.phone = <<>>
        \/ f = "skills section" /\ parsed_resume.skills = <<>>
        \/ f = "education details" /\ parsed_resume.education = <<>>}

-----------------------------------------------------------------------------
(* Claims about extract_skills, checked under SpecExtractSkills.           *)

ExtractSkillsCalled == pc = "done" /\ op = "extract_skills"

\* The skill occurs in the text, whatever the case of either.
OccursIn(skill, text) ==
    LET words == SkillWords(lower(skill)) IN
    \E i \in 1..Len(text) :
        \A k \in 1..Len(words) :
            i + k - 1 <= Len(text) /\ lower(text[i + k - 1]) = words[k]

\* C21: for every skill list S and text T, extract_skills(T, S) returns a
\* sequence without duplicates, each element of which is an element of S as
\* written in S, and the empty sequence when no skill of S occurs in T.
C21_NoDuplicatesVerbatimFromList ==
    ExtractSkillsCalled =>
        /\ \A i \in 1..Len(ret) : \A j \in 1..Len(ret) :
                ret[i] = ret[j] => i = j
        /\ \A i \in 1..Len(ret) :
                \E k \in 1..Len(args.skill_list) : ret[i] = args.skill_list[k]
        /\ (\A k \in 1..Len(args.skill_list) :
                ~OccursIn(args.skill_list[k], args.text))
            => ret = <<>>

\* A list naming a skill twice and in another spelling than the text has it:
\* the skill comes back once, as the list writes it.
C21_Witness ==
    /\ ExtractSkillsCalled
    /\ args.skill_list = <<"python", "sql", "python">>
    /\ args.text = <<"Python", "sql">>
    /\ Len(ret) = 2
    /\ \E i \in 1..2 : ret[i] = "python"

-----------------------------------------------------------------------------
(* Claims about the vocabulary diversity of calculate_content_quality_score, *)
(* checked under SpecContentQuality.                                       *)

ContentQualityCalled ==
    pc = "done" /\ op = "calculate_content_quality_score"
    /\ args.resume_text # <<>>

\* The positions of the alphabetic tokens of a text.
AlphabeticAt(text) ==
    {i \in 1..Len(text) : text[i] \notin Numerals \cup {"+", "-", "."}}

\* The tier of a ratio of two counts (0 when there is nothing to divide by).
TierOfRatio(distinct, total) ==
    IF total = 0 THEN RZero
    ELSE IF 2 * distinct >= total THEN ROne
    ELSE IF 5 * distinct >= 2 * total THEN <<4, 5>>
    ELSE IF 10 * distinct >= 3 * total THEN <<3, 5>>
    ELSE <<2, 5>>

\* C22: the diversity ratio of content_quality is the number of distinct
\* case-folded alphabetic tokens divided by the number of alphabetic tokens:
\* numbers and punctuation count in neither, so the tier of a text is that
\* of the text without them.
C22_DiversityOverAlphabeticTokens ==
    ContentQualityCalled =>
        LET alphabetic == AlphabeticAt(args.resume_text) IN
        aux.diversity_score
            = TierOfRatio(Cardinality({lower(args.resume_text[i]) :
                                            i \in alphabetic}),
                          Cardinality(alphabetic))

-----------------------------------------------------------------------------
(* Claims about extract_entities, checked under SpecEntities.              *)

EntitiesCalled == pc = "done" /\ op = "extract_entities"

\* C23: extract_entities returns a map whose keys are the six kinds PERSON,
\* ORG, DATE, GPE, MONEY, PERCENT, with or without a recognizer and whatever
\* labels the recognizer produces; without a recognizer each kind is mapped
\* to the empty sequence.
C23_SixKindsAlways ==
    EntitiesCalled =>
        /\ DOMAIN ret = {"PERSON", "ORG", "DATE", "GPE", "MONEY", "PERCENT"}
        /\ ~args.nlp => \A kind \in DOMAIN ret : ret[kind] = <<>>

-----------------------------------------------------------------------------
(* Claims about a failing NLP backend, checked under SpecBackend.          *)

BackendCalled == pc = "done" /\ op \in BackendOperations

\* C24: when the NLP backend fails inside a feature-extraction function, the
\* function returns its empty value and the error goes no further: the
\* preprocessing returns the empty text, and calculate_similarity_score and
\* calculate_overall_score still return a result.
C24_BackendFailureContained ==
    BackendCalled /\ ~args.tokenizer_ok =>
        /\ ~aux.raised
        /\ op = "backend.preprocess_for_similarity" => ret = <<>>
        /\ op = "backend.calculate_similarity_score"
                => "overall_score" \in DOMAIN ret
        /\ op = "backend.calculate_overall_score"
                => "overall_score" \in DOMAIN ret

-----------------------------------------------------------------------------
(* Claims about the shared vectorizer, checked under SpecVectorizer.       *)

VectorizerBatchRunning ==
    pc \in {"scoring", "done"} /\ op = "vectorizer.batch_resume_ranking"

\* The result of calculate_similarity_score for the document alone, on a
\* matcher that has scored nothing before.
ScoredAlone(document, job_description) ==
    calculate_similarity_score_with(Unfitted, document[2], job_description,
                                    document[3]).value

\* C25: in batch_resume_ranking the result computed for a document is that
\* of calculate_similarity_score called on the document alone: it depends on
\* the document's text and the job description only, not on the documents
\* scored before it nor on what the shared vectorizer was fitted to.
C25_ResultOfDocumentAlone ==
    VectorizerBatchRunning =>
        \A i \in 1..Len(aux.rankings) :
            /\ aux.rankings[i].overall_score
                = ScoredAlone(args.resumes_data[i],
                              args.job_description).overall_score
            /\ aux.rankings[i].method_scores
                = ScoredAlone(args.resumes_data[i],
                              args.job_description).method_scores

\* Three documents were scored one after the other, the vectorizer fitted
\* to something else before, and the last was scored after two refits.
C25_Witness ==
    /\ VectorizerBatchRunning
    /\ pc = "done"
    /\ Len(aux.rankings) = 3
    /\ aux.vectorizer.fitted
    /\ aux.rankings[3].name = "b.pdf"
    /\ aux.rankings[1].name = "d.pdf"
    /\ aux.rankings[3].overall_score > 0

-----------------------------------------------------------------------------
(* Claims about the callers of calculate_similarity_score, checked under   *)
(* SpecCallers.                                                            *)

CallerDone == pc = "done" /\ op \in CallerOperations

\* C26: every caller of calculate_similarity_score completes without failing
\* when the result is the short-circuit one (overall_score 0 and no method
\* scores): calculate_overall_score, the resume-vs-job analysis, and the
\* batch ranking with its results table.
C26_CallersSurviveShortCircuit ==
    CallerDone /\ aux.short_circuit => ~aux.raised

-----------------------------------------------------------------------------
(* The frame of a turn of the loop of extract_resume_sections and the      *)
(* returned dict, checked under SpecSections.                              *)

SectionsReturned == pc = "done" /\ op = "extract_resume_sections"

EightSections ==
    {"objective", "summary", "experience", "education", "skills", "projects",
     "certifications", "achievements"}

\* C27: a non-blank line that matches no header pattern while section x is
\* current is appended, followed by one space, to section x only: the text
\* of every other section and the current section stay as they are; a blank
\* line changes nothing; the result has exactly the eight fixed keys, each
\* text without white space at its end; and an Education header followed
\* by two lines and a Skills header followed by one line gives education =
\* "line1 line2", skills = "line3" and every other section empty.
C27_ContentLineFrame ==
    /\ [][SectionLineTaken =>
            LET line == args.lines[aux.line]
                x == aux.current_section
            IN  /\ line = <<>> =>
                    /\ aux'.sections = aux.sections
                    /\ aux'.current_section = x
                /\ (line # <<>> /\ MatchingSections(line) = {} /\ x # "None") =>
                    /\ aux'.sections[x] = aux.sections[x] \o line \o <<" ">>
                    /\ \A k \in DOMAIN aux.sections \ {x} :
                            aux'.sections[k] = aux.sections[k]
                    /\ DOMAIN aux'.sections = DOMAIN aux.sections
                    /\ aux'.current_section = x
         ]_vars
    /\ [](SectionsReturned =>
            /\ DOMAIN ret = EightSections
            /\ \A k \in EightSections :
                    ret[k] = <<>> \/ ret[k][Len(ret[k])] # " "
            /\ args.lines = TwoSectionDocument =>
                    /\ ret["education"]
                        = TwoSectionDocument[2] \o <<" ">> \o TwoSectionDocument[3]
                    /\ ret["skills"] = TwoSectionDocument[5]
                    /\ \A k \in EightSections \ {"education", "skills"} :
                            ret[k] = <<>>)

\* The document of two sections has been read to its end and returned.
C27_Witness ==
    /\ SectionsReturned
    /\ args.lines = TwoSectionDocument
    /\ Len(ret["education"]) = 5
    /\ Len(aux.sections["education"]) = 6

-----------------------------------------------------------------------------
(* The grade and the score of one result of calculate_overall_score,       *)
(* checked under SpecOverall.                                              *)

\* C28: the grade returned by calculate_overall_score is get_score_grade of
\* the overall_score returned with it (the value rounded to two decimals):
\* the reported grade and the reported score agree at every grade boundary.
C28_GradeOfReportedScore ==
    OverallCalled =>
        ret.grade = get_score_grade(Rat(ret.overall_score, 100))

-----------------------------------------------------------------------------
(* The category web_development, checked under SpecCategorize.             *)

\* A keyword of the category occurs in the job description.
CategoryOccurs(category) ==
    \E i \in OccurringCategories(args.job_description) :
        JOB_CATEGORIES[i].category = category

\* The keywords of a category of the table.
KeywordsOf(category) ==
    LET i == CHOOSE j \in 1..Len(JOB_CATEGORIES) :
                JOB_CATEGORIES[j].category = category
    IN  {JOB_CATEGORIES[i].keywords[k] :
            k \in 1..Len(JOB_CATEGORIES[i].keywords)}

\* C29: with the configured table categorize_job_role never returns
\* "web_development": a text that holds one of its keywords holds the
\* keyword "developer" of software_development, which comes earlier, and is
\* categorized as data_science or software_development.
C29_WebDevelopmentNeverReturned ==
    CategorizeCalled =>
        /\ ret # "web_development"
        /\ CategoryOccurs("web_development") =>
                /\ CategoryOccurs("software_development")
                /\ ret \in {"data_science", "software_development"}
        /\ <<"developer">> \in KeywordsOf("software_development")
        /\ \A keyword \in KeywordsOf("web_development") :
                \E w \in 1..Len(keyword) : keyword[w] = "developer"

\* "senior web Developers" holds the keyword "web developer" and is
\* categorized as software_development.
C29_Witness ==
    /\ CategorizeCalled
    /\ args.job_description = <<"senior", "web", "Developers">>
    /\ CategoryOccurs("web_development")
    /\ ret = "software_development"

(* Claims about the low-relevance message of get_matching_recommendations. *)

\* Whether the returned recommendations hold the message of a heading.
Recommends(heading) ==
    \E i \in 1..Len(ret) : ret[i].heading = heading

\* The known skills of the job description of the call.
KnownJobSkills ==
    LowerSet(extract_skills(args.job_description, DefaultSkillList))

\* C30: get_matching_recommendations emits the low-relevance message without
\* the missing-skills message exactly when the job description holds no known
\* skill, and skill_match_percentage is then 0; when the job description
\* holds at least one known skill, a low-relevance message always comes with
\* the missing-skills message.
C30_LowRelevanceAloneIffNoJobSkill ==
    RecommendationsCalled =>
        /\ (Recommends("Improve skill relevance")
                /\ ~Recommends("Add missing skills"))
            <=> KnownJobSkills = {}
        /\ KnownJobSkills = {} =>
                aux.skill_analysis.skill_match_percentage = RZero
        /\ (KnownJobSkills # {} /\ Recommends("Improve skill relevance"))
                => Recommends("Add missing skills")

\* A resume with a known skill against a job description without one: the
\* low-relevance message alone of the two.
C30_Witness ==
    /\ RecommendationsCalled
    /\ args.job_description = <<"team", "skills">>
    /\ LowerSet(extract_skills(args.resume_text, DefaultSkillList)) # {}
    /\ Recommends("Improve skill relevance")
    /\ ~Recommends("Add missing skills")

====
